---- MODULE Spec2Model ----
(***************************************************************************)
(* Hemlock: the interpreter's environments (environment.c), the resolver   *)
(* contract (resolver.h), and the array operations of the interpreter      *)
(* (values.c) and of the runtime library (builtins_array.c).               *)
(***************************************************************************)
EXTENDS Integers, Sequences, FiniteSets, TLC

\* ------------------------------------------------------------ bounds
\* Environments that env_new may allocate (the global one included).
MaxEnvs == 3

\* Calls made on the environments in one run.
MaxCalls == 4

\* Longest array built.
MaxLen == 3

\* Longest array built on the reference-counted heap, and the most handles
\* to one String the caller holds.
MaxSlots == 2

MaxOwned == 2

\* Strings allocated in one run, and the longest C string and concatenation.
MaxStrings == 3

MaxChars == 2

\* Variable names and stored values of the environment model.
Names == {"x", "y"}
Values == {1, 2}

\* NULL pointer.
NULL == 0

VARIABLES
    heap,      \* environment.c: the allocated Environments, by address 1..Len(heap)
    status,    \* "running", or "exit1" after exit(1)
    stderr,    \* the runtime error written before exit(1), <<>> when none
    last,      \* the last call made: operation, arguments and returned value
    calls,     \* number of calls made so far
    written,   \* history: per environment and slot, the value last passed to the
               \* env_define or env_set call that was aimed at that binding
    scopes,    \* resolver.h: the ResolverScope chain of ctx->current, outermost
               \* first, each the names defined in it in slot order
    cur,       \* the evaluator's current Environment (an address in heap)
    arr,       \* the array operated on: an interpreter Array (values.c) or a
               \* runtime HmlArray (builtins_array.c)
    refs,      \* runtime heap: the ref_count of each heap String, 0 once freed
    owned,     \* per heap String, the handles (owned HmlValues) the caller holds
    result,    \* the array returned by slice or concat that the caller holds
    strs,      \* values.c: the live String structs, in allocation order
    mem,       \* the malloc'ed data buffers, by address 1..Len(mem)
    kinds,     \* type_infer.c: operand kinds and the results computed from them
    program,   \* the top-level statements the inference runs over
    pc,        \* index of the next top-level statement of the current pass
    pass,      \* number of the current inference pass, from 1
    ctx,       \* the TypeInferContext: current_env chain and changed
    prior,     \* history: per name, the kind it had when the previous pass ended
    resp,      \* lws_wrapper.c: the http_response_t of the running lws_http_get
    conn,      \* the ws_connection_t lws_ws_connect allocated
    context,   \* the lws_context and the client connection (wsi) it serves
    lws        \* the running call of the wrapper: its locals and position, and
               \* the history of what it called

envVars == <<heap, status, stderr, last, calls, written>>

resVars == <<scopes, cur>>

rcVars == <<refs, owned, result>>

strVars == <<strs, mem>>

inferVars == <<kinds, program, pc, pass, ctx, prior>>

lwsVars == <<resp, conn, context, lws>>

\* The variables of the runtime heap, the strings, the type inference and the
\* libwebsockets wrapper.
addedVars == <<rcVars, strVars, inferVars, lwsVars>>

vars == <<heap, status, stderr, last, calls, written, scopes, cur, arr,
          refs, owned, result, strs, mem, kinds, program, pc, pass, ctx, prior,
          resp, conn, context, lws>>

\* Nothing allocated on the runtime heap, no String, no inference under way.
RcIdle == refs = <<>> /\ owned = <<>> /\ result = <<>>

StrIdle == strs = <<>> /\ mem = <<>>

InferIdle ==
    /\ kinds = <<>>
    /\ program = <<>>
    /\ pc = 0
    /\ pass = 0
    /\ ctx = <<>>
    /\ prior = <<>>

\* No call of the libwebsockets wrapper made.
LwsIdle == resp = <<>> /\ conn = <<>> /\ context = <<>> /\ lws = <<>>

AddedIdle == RcIdle /\ StrIdle /\ InferIdle /\ LwsIdle

\* ------------------------------------------------------- environment.c
\* A call that has not happened.
NoCall == [op |-> "none", env |-> NULL, name |-> "", val |-> 0, c |-> 0, ret |-> 0]

\* env_new: an empty scope of capacity 16 below parent.
InitialCapacity == 16

env_new(parent) ==
    [names |-> <<>>, values |-> <<>>, is_const |-> <<>>,
     count |-> 0, capacity |-> InitialCapacity, parent |-> parent]

\* env_grow: the capacity doubles, the stored bindings are kept by realloc.
env_grow(env) == [env EXCEPT !.capacity = 2 * env.capacity]

\* The loop `for (i = 0; i < env->count; i++) if (strcmp(names[i], name) == 0)`:
\* the first index holding name (1-based here), 0 when the loop runs out.
env_find(env, name) ==
    LET hits == {i \in 1..env.count : env.names[i] = name}
    IN  IF hits = {} THEN 0 ELSE CHOOSE i \in hits : \A j \in hits : i <= j

\* Mutant of env_append: the new binding is stored at index 0, in front of
\* the others.
env_append_front(env, name, value, is_const) ==
    [env EXCEPT !.names = <<name>> \o env.names,
                !.values = <<value>> \o env.values,
                !.is_const = <<is_const>> \o env.is_const,
                !.count = env.count + 1]

\* The tail shared by env_define and env_set: grow when full, store at index
\* count, count++.
env_append(env, name, value, is_const) ==
    LET e == IF env.count >= env.capacity THEN env_grow(env) ELSE env
    IN  [e EXCEPT !.names = Append(e.names, name),
                  !.values = Append(e.values, value),
                  !.is_const = Append(e.is_const, is_const),
                  !.count = e.count + 1]

\* The outcome of a call: the heap after it, whether it ended in exit(1), the
\* message on stderr, and the returned value (env_get only).
Outcome(h, exited, msg, ret) == [heap |-> h, exited |-> exited, msg |-> msg, ret |-> ret]

\* Mutant of env_define: the collision check walks the whole parent chain, so
\* a name bound in an ancestor cannot be shadowed.
env_define_no_shadowing(h, env, name, value, is_const) ==
    LET bound[s \in 0..Len(h)] ==
            IF s = NULL THEN FALSE
            ELSE \/ \E i \in 1..h[s].count : h[s].names[i] = name
                 \/ (h[s].parent < s /\ bound[h[s].parent])
    IN  IF bound[env]
        THEN Outcome(h, TRUE, <<"Variable already defined in this scope", name>>, 0)
        ELSE Outcome([h EXCEPT ![env] = env_append(h[env], name, value, is_const)],
                     FALSE, <<>>, 0)

env_define(h, env, name, value, is_const) ==
    IF env_find(h[env], name) # 0
    THEN Outcome(h, TRUE, <<"Variable already defined in this scope", name>>, 0)
    ELSE Outcome([h EXCEPT ![env] = env_append(h[env], name, value, is_const)],
                 FALSE, <<>>, 0)

\* The while loop of env_set over search_env = env->parent, ->parent, ...:
\* the first scope holding name with the index found there, <<NULL, 0>> if none.
RECURSIVE env_search(_, _, _)
env_search(h, search_env, name) ==
    IF search_env = NULL THEN <<NULL, 0>>
    ELSE LET i == env_find(h[search_env], name)
         IN  IF i # 0 THEN <<search_env, i>>
             ELSE env_search(h, h[search_env].parent, name)

\* Mutant of env_set: the const check is missing in the parent-scope branch.
env_set_parent_const_unchecked(h, env, name, value) ==
    LET i == env_find(h[env], name)
        up == env_search(h, h[env].parent, name)
    IN  IF i # 0
        THEN IF h[env].is_const[i] # 0
             THEN Outcome(h, TRUE, <<"Cannot assign to const variable", name>>, 0)
             ELSE Outcome([h EXCEPT ![env].values[i] = value], FALSE, <<>>, 0)
        ELSE IF up[1] # NULL
        THEN Outcome([h EXCEPT ![up[1]].values[up[2]] = value], FALSE, <<>>, 0)
        ELSE Outcome([h EXCEPT ![env] = env_append(h[env], name, value, 0)],
                     FALSE, <<>>, 0)

\* Mutant of env_set: the parent scopes are searched before the current one.
env_set_parents_first(h, env, name, value) ==
    LET i == env_find(h[env], name)
        up == env_search(h, h[env].parent, name)
    IN  IF up[1] # NULL
        THEN IF h[up[1]].is_const[up[2]] # 0
             THEN Outcome(h, TRUE, <<"Cannot assign to const variable", name>>, 0)
             ELSE Outcome([h EXCEPT ![up[1]].values[up[2]] = value], FALSE, <<>>, 0)
        ELSE IF i # 0
        THEN IF h[env].is_const[i] # 0
             THEN Outcome(h, TRUE, <<"Cannot assign to const variable", name>>, 0)
             ELSE Outcome([h EXCEPT ![env].values[i] = value], FALSE, <<>>, 0)
        ELSE Outcome([h EXCEPT ![env] = env_append(h[env], name, value, 0)],
                     FALSE, <<>>, 0)

\* Mutant of env_set: an unknown name is created in the outermost scope of the
\* chain instead of the current one.
env_set_creates_in_root(h, env, name, value) ==
    LET i == env_find(h[env], name)
        up == env_search(h, h[env].parent, name)
        root[s \in 1..Len(h)] ==
            IF h[s].parent = NULL \/ h[s].parent >= s THEN s ELSE root[h[s].parent]
    IN  IF i # 0
        THEN IF h[env].is_const[i] # 0
             THEN Outcome(h, TRUE, <<"Cannot assign to const variable", name>>, 0)
             ELSE Outcome([h EXCEPT ![env].values[i] = value], FALSE, <<>>, 0)
        ELSE IF up[1] # NULL
        THEN IF h[up[1]].is_const[up[2]] # 0
             THEN Outcome(h, TRUE, <<"Cannot assign to const variable", name>>, 0)
             ELSE Outcome([h EXCEPT ![up[1]].values[up[2]] = value], FALSE, <<>>, 0)
        ELSE Outcome([h EXCEPT ![root[env]] = env_append(h[root[env]], name, value, 0)],
                     FALSE, <<>>, 0)

env_set(h, env, name, value) ==
    LET i == env_find(h[env], name)
        up == env_search(h, h[env].parent, name)
    IN  IF i # 0
        THEN IF h[env].is_const[i] # 0
             THEN Outcome(h, TRUE, <<"Cannot assign to const variable", name>>, 0)
             ELSE Outcome([h EXCEPT ![env].values[i] = value], FALSE, <<>>, 0)
        ELSE IF up[1] # NULL
        THEN IF h[up[1]].is_const[up[2]] # 0
             THEN Outcome(h, TRUE, <<"Cannot assign to const variable", name>>, 0)
             ELSE Outcome([h EXCEPT ![up[1]].values[up[2]] = value], FALSE, <<>>, 0)
        ELSE Outcome([h EXCEPT ![env] = env_append(h[env], name, value, 0)],
                     FALSE, <<>>, 0)

\* Mutant of env_get: the enclosing scopes are consulted before the scope
\* itself, so a shadowed outer binding wins.
env_get_outer_first(h, env, name) ==
    LET look[s \in 1..Len(h)] ==
            LET i == env_find(h[s], name)
                up == IF h[s].parent # NULL /\ h[s].parent < s
                      THEN look[h[s].parent]
                      ELSE Outcome(h, TRUE, <<"Undefined variable", name>>, 0)
            IN  IF ~up.exited THEN up
                ELSE IF i # 0 THEN Outcome(h, FALSE, <<>>, h[s].values[i])
                ELSE up
    IN  look[env]

RECURSIVE env_get(_, _, _)
env_get(h, env, name) ==
    LET i == env_find(h[env], name)
    IN  IF i # 0 THEN Outcome(h, FALSE, <<>>, h[env].values[i])
        ELSE IF h[env].parent # NULL THEN env_get(h, h[env].parent, name)
        ELSE Outcome(h, TRUE, <<"Undefined variable", name>>, 0)

\* ---------------------------------------------- environment operations
EnvAddrs == 1..Len(heap)

\* The scopes on the parent chain of env, innermost first.
RECURSIVE Chain(_, _)
Chain(h, env) == IF env = NULL THEN <<>> ELSE <<env>> \o Chain(h, h[env].parent)

Binds(h, env, name) == \E i \in 1..Len(h[env].names) : h[env].names[i] = name

\* The innermost scope on the chain of env that binds name, NULL if none does.
Owner(h, env, name) ==
    LET ch == Chain(h, env)
        ks == {k \in 1..Len(ch) : Binds(h, ch[k], name)}
    IN  IF ks = {} THEN NULL ELSE ch[CHOOSE k \in ks : \A m \in ks : k <= m]

\* The index of name in scope env (which binds it).
SlotOf(h, env, name) == CHOOSE i \in 1..Len(h[env].names) : h[env].names[i] = name

\* The history of a call that returned: the binding the call was aimed at
\* (the one a lookup from env reaches, or a new one at the end of env) now
\* records value.
Record(env, name, value, op) ==
    LET o == IF op = "define" THEN NULL ELSE Owner(heap, env, name)
    IN  IF o = NULL
        THEN [written EXCEPT ![env] = Append(@, value)]
        ELSE [written EXCEPT ![o][SlotOf(heap, o, name)] = value]

\* What a call leaves behind: the heap, and exit(1) with its message.
Finish(o, call) ==
    /\ heap' = o.heap
    /\ status' = IF o.exited THEN "exit1" ELSE "running"
    /\ stderr' = o.msg
    /\ last' = [call EXCEPT !.ret = o.ret]
    /\ calls' = calls + 1
    /\ written' = IF o.exited \/ call.op = "get" THEN written
                  ELSE Record(call.env, call.name, call.val, call.op)
    /\ UNCHANGED <<resVars, arr, addedVars>>

EnvNew ==
    /\ status = "running"
    /\ calls < MaxCalls
    /\ Len(heap) < MaxEnvs
    /\ \E parent \in {NULL} \cup EnvAddrs :
         /\ heap' = Append(heap, env_new(parent))
         /\ last' = [NoCall EXCEPT !.op = "new", !.env = parent, !.ret = Len(heap) + 1]
    /\ calls' = calls + 1
    /\ written' = Append(written, <<>>)
    /\ UNCHANGED <<status, stderr>>
    /\ UNCHANGED <<resVars, arr, addedVars>>

EnvDefine ==
    /\ status = "running"
    /\ calls < MaxCalls
    /\ \E env \in EnvAddrs, name \in Names, value \in Values, is_const \in {0, 1} :
         Finish(env_define(heap, env, name, value, is_const),
                [NoCall EXCEPT !.op = "define", !.env = env, !.name = name,
                               !.val = value, !.c = is_const])

EnvSet ==
    /\ status = "running"
    /\ calls < MaxCalls
    /\ \E env \in EnvAddrs, name \in Names, value \in Values :
         Finish(env_set(heap, env, name, value),
                [NoCall EXCEPT !.op = "set", !.env = env, !.name = name, !.val = value])

EnvGet ==
    /\ status = "running"
    /\ calls < MaxCalls
    /\ \E env \in EnvAddrs, name \in Names :
         Finish(env_get(heap, env, name),
                [NoCall EXCEPT !.op = "get", !.env = env, !.name = name])

InitEnv ==
    /\ heap = <<env_new(NULL)>>
    /\ status = "running"
    /\ stderr = <<>>
    /\ last = NoCall
    /\ calls = 0
    /\ written = <<(<<>>)>>
    /\ scopes = <<>>
    /\ cur = NULL
    /\ arr = NULL
    /\ AddedIdle

NextEnv == EnvNew \/ EnvDefine \/ EnvSet \/ EnvGet

SpecEnv == InitEnv /\ [][NextEnv]_vars

\* ------------------------------------------------ environment properties
\* The step just taken is a call of op.
Called(op) == calls' = calls + 1 /\ last'.op = op

\* new is old with the binding (name, value, c) stored after its last one.
Appended(old, new, name, value, c) ==
    /\ new.names = Append(old.names, name)
    /\ new.values = Append(old.values, value)
    /\ new.is_const = Append(old.is_const, c)
    /\ new.count = old.count + 1
    /\ new.parent = old.parent
    /\ new.capacity >= new.count

\* Every environment but env is the same in h2 as in h1.
OthersSame(h1, h2, env) ==
    /\ Len(h2) = Len(h1)
    /\ \A f \in 1..Len(h1) : f # env => h2[f] = h1[f]

\* The binding a lookup of name from env reaches is const.
ReachesConst(h, env, name) ==
    LET o == Owner(h, env, name)
    IN  o # NULL /\ h[o].is_const[SlotOf(h, o, name)] # 0

\* C1: const immutability. A binding that is const keeps its name, its value
\* and its flag in every step; an env_set whose inside-out search reaches a
\* const binding first ends in exit(1) with "Cannot assign to const variable"
\* and writes nothing; and a binding created by env_define(.., is_const = 1)
\* starts const with the defined value. Hence a const binding always holds the
\* value it was defined with.
C1_ConstImmutable ==
    [][/\ Len(heap') >= Len(heap)
       /\ \A e \in 1..Len(heap) : \A i \in 1..Len(heap[e].names) :
            heap[e].is_const[i] # 0 =>
                /\ Len(heap'[e].names) >= i
                /\ Len(heap'[e].values) >= i
                /\ Len(heap'[e].is_const) >= i
                /\ heap'[e].names[i] = heap[e].names[i]
                /\ heap'[e].values[i] = heap[e].values[i]
                /\ heap'[e].is_const[i] # 0
       /\ (Called("set") /\ ReachesConst(heap, last'.env, last'.name)) =>
            /\ status' = "exit1"
            /\ stderr' = <<"Cannot assign to const variable", last'.name>>
            /\ heap' = heap
       /\ (Called("define") /\ status' = "running" /\ last'.c # 0) =>
            LET n == Len(heap'[last'.env].names)
            IN  /\ n = Len(heap[last'.env].names) + 1
                /\ heap'[last'.env].names[n] = last'.name
                /\ heap'[last'.env].values[n] = last'.val
                /\ heap'[last'.env].is_const[n] # 0
      ]_vars

\* C1 witness: an env_set from a child scope reached a const binding of an
\* enclosing scope and the program ended with the const error.
C1_Witness ==
    /\ status = "exit1"
    /\ last.op = "set"
    /\ stderr = <<"Cannot assign to const variable", last.name>>
    /\ Owner(heap, last.env, last.name) \notin {NULL, last.env}
    /\ ReachesConst(heap, last.env, last.name)

\* C2 as stated: an env_set of a name bound on the chain overwrites the value
\* of the innermost binding of that name and changes nothing else.
C2_SetOverwritesInnermost ==
    [][(Called("set") /\ Owner(heap, last'.env, last'.name) # NULL) =>
            LET o == Owner(heap, last'.env, last'.name)
            IN  heap' = [heap EXCEPT ![o].values[SlotOf(heap, o, last'.name)] = last'.val]
      ]_vars

\* C2 amended: an env_set of a name bound on the chain, whose innermost binding
\* is mutable, returns and overwrites the value of exactly that binding; no
\* other value, no count, no name and no is_const flag changes. When the
\* innermost binding is const the call ends in exit(1) and nothing changes.
C2_SetOverwritesInnermostMutable ==
    [][(Called("set") /\ Owner(heap, last'.env, last'.name) # NULL) =>
            LET o == Owner(heap, last'.env, last'.name)
                i == SlotOf(heap, o, last'.name)
            IN  IF heap[o].is_const[i] # 0
                THEN status' = "exit1" /\ heap' = heap
                ELSE /\ status' = "running"
                     /\ heap' = [heap EXCEPT ![o].values[i] = last'.val]
      ]_vars

\* C2 witness: env_set has written a binding of the scope it was called on
\* while an enclosing scope holds a binding of the same name with another
\* value (the shadowed one, left alone).
C2_Witness ==
    /\ status = "running"
    /\ last.op = "set"
    /\ Owner(heap, last.env, last.name) = last.env
    /\ heap[last.env].values[SlotOf(heap, last.env, last.name)] = last.val
    /\ heap[last.env].parent # NULL
    /\ LET up == Owner(heap, heap[last.env].parent, last.name)
       IN  up # NULL /\ heap[up].values[SlotOf(heap, up, last.name)] # last.val

\* C3: an env_set of a name bound nowhere on the chain appends (name, v, 0) to
\* the scope it was called on and leaves every other scope as it was; a
\* following env_get on that scope returns v, and one that starts at the
\* parent does not find the name.
C3_SetCreatesInCurrentScope ==
    [][(Called("set") /\ Owner(heap, last'.env, last'.name) = NULL) =>
            /\ status' = "running"
            /\ OthersSame(heap, heap', last'.env)
            /\ Appended(heap[last'.env], heap'[last'.env], last'.name, last'.val, 0)
            /\ env_get(heap', last'.env, last'.name)
                 = Outcome(heap', FALSE, <<>>, last'.val)
            /\ heap[last'.env].parent # NULL =>
                 env_get(heap', heap[last'.env].parent, last'.name).exited
      ]_vars

\* C3 witness: after one env_new and one env_set, the child scope holds the
\* binding the env_set created and its parent, the global scope, holds none.
C3_Witness ==
    /\ status = "running"
    /\ calls = 2
    /\ last.op = "set"
    /\ last.env = 2
    /\ heap[2].parent = 1
    /\ heap[2].names = <<last.name>>
    /\ heap[2].values = <<last.val>>
    /\ heap[1].count = 0

\* C4: env_define looks at the scope it is called on only. If that scope binds
\* the name the call ends in exit(1) with "Variable already defined in this
\* scope" and changes nothing; otherwise it appends (name, v, c) to the scope,
\* also when an enclosing scope binds the name, and changes no other scope.
C4_DefineCurrentScopeOnly ==
    [][Called("define") =>
            IF Binds(heap, last'.env, last'.name)
            THEN /\ status' = "exit1"
                 /\ stderr' = <<"Variable already defined in this scope", last'.name>>
                 /\ heap' = heap
            ELSE /\ status' = "running"
                 /\ OthersSame(heap, heap', last'.env)
                 /\ Appended(heap[last'.env], heap'[last'.env],
                             last'.name, last'.val, last'.c)
      ]_vars

\* C4 witness: an env_define has succeeded in a scope whose parent chain binds
\* the same name (shadowing).
C4_Witness ==
    /\ status = "running"
    /\ last.op = "define"
    /\ heap[last.env].parent # NULL
    /\ Owner(heap, heap[last.env].parent, last.name) # NULL
    /\ heap[last.env].names[heap[last.env].count] = last.name

\* C5: env_get changes nothing; it ends in exit(1) with "Undefined variable"
\* exactly when no scope on the chain binds the name, and otherwise returns
\* the value of the innermost binding, which is the value last written to
\* that binding by env_define or env_set.
C5_GetInnermostOrUndefined ==
    [][Called("get") =>
            LET o == Owner(heap, last'.env, last'.name)
            IN  /\ heap' = heap
                /\ IF o = NULL
                   THEN /\ status' = "exit1"
                        /\ stderr' = <<"Undefined variable", last'.name>>
                   ELSE /\ status' = "running"
                        /\ last'.ret = heap[o].values[SlotOf(heap, o, last'.name)]
                        /\ Len(written[o]) >= SlotOf(heap, o, last'.name)
                        /\ last'.ret = written[o][SlotOf(heap, o, last'.name)]
      ]_vars

\* C5 witness: an env_get returned the value of a binding found in the scope
\* it was called on, while an enclosing scope binds the name to another value.
C5_Witness ==
    /\ status = "running"
    /\ last.op = "get"
    /\ Owner(heap, last.env, last.name) = last.env
    /\ heap[last.env].parent # NULL
    /\ LET up == Owner(heap, heap[last.env].parent, last.name)
       IN  up # NULL /\ heap[up].values[SlotOf(heap, up, last.name)] # last.ret

\* C6: the bindings of a scope are kept in insertion order. No two bindings
\* of a scope share a name; a step leaves the name and the is_const flag of
\* every binding at its index, and adds at most one binding, at index count.
C6_SlotsFixed ==
    /\ [](\A e \in 1..Len(heap) :
            /\ heap[e].count = Len(heap[e].names)
            /\ Len(heap[e].values) = heap[e].count
            /\ Len(heap[e].is_const) = heap[e].count
            /\ \A i, j \in 1..Len(heap[e].names) :
                 heap[e].names[i] = heap[e].names[j] => i = j)
    /\ [][/\ Len(heap') >= Len(heap)
          /\ \A e \in 1..Len(heap) :
               /\ Len(heap'[e].names) \in {Len(heap[e].names), Len(heap[e].names) + 1}
               /\ Len(heap'[e].is_const) = Len(heap'[e].names)
               /\ \A i \in 1..Len(heap[e].names) :
                    /\ heap'[e].names[i] = heap[e].names[i]
                    /\ heap'[e].is_const[i] = heap[e].is_const[i]
               /\ Len(heap'[e].names) > Len(heap[e].names) =>
                    /\ last'.op \in {"define", "set"}
                    /\ heap'[e].names[heap[e].count + 1] = last'.name
         ]_vars

\* C6 witness: a scope holds two bindings, the second one created by env_set
\* after the first was created by env_define.
C6_Witness ==
    /\ status = "running"
    /\ calls = 2
    /\ last.op = "set"
    /\ heap[1].count = 2
    /\ heap[1].names[2] = last.name
    /\ heap[1].names[1] # last.name

\* ------------------------------------------------- resolver.h, evaluator
\* The programs run here are straight-line: LET/CONST, assignments and
\* references, nested in blocks. The resolver pass and the evaluator visit
\* the nodes of such a program in the same order, so one step resolves a node
\* (against the scopes built from the nodes before it) and runs it.
\* resolver_enter_scope / resolver_exit_scope: push and pop a compile-time
\* scope.
resolver_enter_scope(sc) == Append(sc, <<>>)

resolver_exit_scope(sc) == SubSeq(sc, 1, Len(sc) - 1)

\* resolver_define: the name is appended to the current scope and gets the
\* slot count - 1; a name already in the current scope is a resolver error.
resolver_define(sc, name) ==
    LET current == sc[Len(sc)]
    IN  IF \E i \in 1..Len(current) : current[i] = name
        THEN [error |-> TRUE, scopes |-> sc, slot |-> -1]
        ELSE [error |-> FALSE,
              scopes |-> [sc EXCEPT ![Len(sc)] = Append(current, name)],
              slot |-> Len(current)]

\* resolver_lookup: inside-out search; depth is the number of scope hops
\* (0 = current scope), slot the index within the scope found.
RECURSIVE resolver_walk(_, _, _)
resolver_walk(sc, k, name) ==
    IF k = 0 THEN [found |-> FALSE, depth |-> 0, slot |-> 0]
    ELSE LET hits == {i \in 1..Len(sc[k]) : sc[k][i] = name}
         IN  IF hits # {}
             THEN [found |-> TRUE, depth |-> Len(sc) - k,
                   slot |-> (CHOOSE i \in hits : TRUE) - 1]
             ELSE resolver_walk(sc, k - 1, name)

resolver_lookup(sc, name) == resolver_walk(sc, Len(sc), name)

\* The environment depth parent hops above env.
RECURSIVE env_from_depth(_, _, _)
env_from_depth(h, env, depth) ==
    IF depth = 0 \/ env = NULL THEN env
    ELSE env_from_depth(h, h[env].parent, depth - 1)

\* get_slotted(depth, slot): the value at index slot of the environment depth
\* hops up. An index outside the environment's bindings reads memory the
\* environment does not own: any value, or a crash.
get_slotted(h, env, depth, slot) ==
    LET e == env_from_depth(h, env, depth)
    IN  IF e # NULL /\ slot < h[e].count
        THEN {Outcome(h, FALSE, <<>>, h[e].values[slot + 1])}
        ELSE {Outcome(h, FALSE, <<>>, v) : v \in Values}
                 \cup {Outcome(h, TRUE, <<"crash">>, 0)}

\* set_slotted(depth, slot, v): the write at index slot of the environment
\* depth hops up, refused for a const binding.
set_slotted(h, env, depth, slot, name, value) ==
    LET e == env_from_depth(h, env, depth)
    IN  IF e # NULL /\ slot < h[e].count
        THEN IF h[e].is_const[slot + 1] # 0
             THEN {Outcome(h, TRUE, <<"Cannot assign to const variable", name>>, 0)}
             ELSE {Outcome([h EXCEPT ![e].values[slot + 1] = value], FALSE, <<>>, 0)}
        ELSE {Outcome(h, FALSE, <<>>, 0), Outcome(h, TRUE, <<"crash">>, 0)}

\* A reference as the resolver leaves it in the AST node.
NoRef == [op |-> "none", name |-> "", val |-> 0, resolved |-> FALSE,
          depth |-> 0, slot |-> 0, ret |-> 0]

\* The evaluator has run one statement or expression.
Ran(o, node, sc) ==
    /\ heap' = o.heap
    /\ status' = IF o.exited THEN "exit1" ELSE "running"
    /\ stderr' = o.msg
    /\ last' = [node EXCEPT !.ret = o.ret]
    /\ calls' = calls + 1
    /\ scopes' = sc
    /\ UNCHANGED <<cur, written, arr, addedVars>>

\* LET / CONST: resolver_define at resolve time, env_define at run time.
StmtLet ==
    /\ status = "running"
    /\ calls < MaxCalls
    /\ \E name \in Names, value \in Values, is_const \in {0, 1} :
         LET r == resolver_define(scopes, name)
             node == [NoRef EXCEPT !.op = "let", !.name = name, !.val = value]
         IN  IF r.error
             THEN Ran(Outcome(heap, TRUE, <<"Resolve error", name>>, 0), node, scopes)
             ELSE Ran(env_define(heap, cur, name, value, is_const), node, r.scopes)

\* ASSIGN: through the annotated slot when resolved, else env_set by name.
ExprAssign ==
    /\ status = "running"
    /\ calls < MaxCalls
    /\ \E name \in Names, value \in Values :
         LET r == resolver_lookup(scopes, name)
             node == [NoRef EXCEPT !.op = "assign", !.name = name, !.val = value,
                                   !.resolved = r.found, !.depth = r.depth,
                                   !.slot = r.slot]
         IN  IF r.found
             THEN \E o \in set_slotted(heap, cur, r.depth, r.slot, name, value) :
                    Ran(o, node, scopes)
             ELSE Ran(env_set(heap, cur, name, value), node, scopes)

\* IDENT: through the annotated slot when resolved, else env_get by name.
ExprIdent ==
    /\ status = "running"
    /\ calls < MaxCalls
    /\ \E name \in Names :
         LET r == resolver_lookup(scopes, name)
             node == [NoRef EXCEPT !.op = "ident", !.name = name,
                                   !.resolved = r.found, !.depth = r.depth,
                                   !.slot = r.slot]
         IN  IF r.found
             THEN \E o \in get_slotted(heap, cur, r.depth, r.slot) :
                    Ran(o, node, scopes)
             ELSE Ran(env_get(heap, cur, name), node, scopes)

\* BLOCK: a child scope in the resolver and a child environment at run time.
BlockEnter ==
    /\ status = "running"
    /\ calls < MaxCalls
    /\ Len(heap) < MaxEnvs
    /\ heap' = Append(heap, env_new(cur))
    /\ cur' = Len(heap) + 1
    /\ scopes' = resolver_enter_scope(scopes)
    /\ last' = [NoRef EXCEPT !.op = "enter"]
    /\ calls' = calls + 1
    /\ UNCHANGED <<status, stderr, written, arr, addedVars>>

BlockExit ==
    /\ status = "running"
    /\ calls < MaxCalls
    /\ Len(scopes) > 1
    /\ heap' = SubSeq(heap, 1, Len(heap) - 1)
    /\ cur' = heap[cur].parent
    /\ scopes' = resolver_exit_scope(scopes)
    /\ last' = [NoRef EXCEPT !.op = "exit"]
    /\ calls' = calls + 1
    /\ UNCHANGED <<status, stderr, written, arr, addedVars>>

InitResolver ==
    /\ heap = <<env_new(NULL)>>
    /\ status = "running"
    /\ stderr = <<>>
    /\ last = NoRef
    /\ calls = 0
    /\ written = <<(<<>>)>>
    /\ scopes = <<(<<>>)>>
    /\ cur = 1
    /\ arr = NULL
    /\ AddedIdle

NextResolver == StmtLet \/ ExprAssign \/ ExprIdent \/ BlockEnter \/ BlockExit

SpecResolver == InitResolver /\ [][NextResolver]_vars

\* C7: resolver soundness. After the evaluator has run an IDENT or ASSIGN
\* that the resolver annotated with (depth, slot), the binding at index slot
\* of the environment depth hops above the current one has the identifier's
\* name, and its value is the one the name walk env_get finds.
C7_ResolverSound ==
    (last.op \in {"ident", "assign"} /\ last.resolved) =>
        LET e == env_from_depth(heap, cur, last.depth)
        IN  /\ e # NULL
            /\ last.slot < heap[e].count
            /\ heap[e].names[last.slot + 1] = last.name
            /\ status = "running" =>
                 /\ env_get(heap, cur, last.name)
                      = Outcome(heap, FALSE, <<>>, heap[e].values[last.slot + 1])
                 /\ last.op = "ident" => last.ret = heap[e].values[last.slot + 1]

\* --------------------------------------------- values.c, builtins_array.c
\* Values stored in arrays: a type tag and a payload.
val_i32(n) == [type |-> "I32", v |-> n]

val_string(s) == [type |-> "STRING", v |-> s]

val_null == [type |-> "NULL", v |-> 0]

ArrVals == {val_i32(1), val_i32(2), val_string(1), val_null}

\* Element types a typed array can be given; "NULL" is HML_VAL_NULL, untyped.
ElemTypes == {"NULL", "I32", "STRING"}

\* Index arguments: negative, inside and past the end.
Indexes == -1..MaxLen

\* The outcome of an array call: the array after it, exit with a message, and
\* the returned value.
ArrOutcome(a, exited, msg, ret) == [arr |-> a, exited |-> exited, msg |-> msg, ret |-> ret]

\* values.c: array_new.
ArrayInitialCapacity == 8

array_new == [kind |-> "Array", elements |-> <<>>, length |-> 0,
              capacity |-> ArrayInitialCapacity]

array_grow(a) == [a EXCEPT !.capacity = 2 * a.capacity]

array_push(a, val) ==
    LET g == IF a.length >= a.capacity THEN array_grow(a) ELSE a
    IN  [g EXCEPT !.elements = Append(g.elements, val), !.length = g.length + 1]

array_pop(a) ==
    IF a.length = 0 THEN ArrOutcome(a, FALSE, <<>>, val_null)
    ELSE ArrOutcome([a EXCEPT !.elements = SubSeq(a.elements, 1, a.length - 1),
                              !.length = a.length - 1],
                    FALSE, <<>>, a.elements[a.length])

array_get(a, index) ==
    IF index < 0 \/ index >= a.length
    THEN ArrOutcome(a, TRUE, <<"Array index out of bounds", index, a.length>>, val_null)
    ELSE ArrOutcome(a, FALSE, <<>>, a.elements[index + 1])

\* The loop `while (index >= arr->length) array_push(arr, val_null())`.
RECURSIVE array_fill(_, _)
array_fill(a, index) ==
    IF index >= a.length THEN array_fill(array_push(a, val_null), index) ELSE a

array_set(a, index, val) ==
    IF index < 0
    THEN ArrOutcome(a, TRUE, <<"Negative array index not supported">>, val_null)
    ELSE ArrOutcome([array_fill(a, index) EXCEPT !.elements[index + 1] = val],
                    FALSE, <<>>, val_null)

\* builtins_array.c: a fresh untyped HmlArray, and the HmlValue that refers
\* to an array.
hml_val_array == [kind |-> "HmlArray", elements |-> <<>>, length |-> 0,
                  capacity |-> 0, element_type |-> "NULL"]

ArrayValue(a) == [type |-> "ARRAY", as_array |-> a]

\* `arr.type != HML_VAL_ARRAY || !arr.as.as_array`
NotArray(arrv) == arrv.type # "ARRAY"

\* hml_runtime_error: the message goes to stderr and the call does not return.
hml_runtime_error(a, msg) == ArrOutcome(a, TRUE, msg, val_null)

TypeMismatch == <<"Type mismatch in typed array - expected element of specific type">>

\* `if (a->length >= a->capacity) { new_cap = capacity == 0 ? 8 : capacity * 2 ...`
hml_grow(a) ==
    IF a.length >= a.capacity
    THEN [a EXCEPT !.capacity = IF a.capacity = 0 THEN 8 ELSE a.capacity * 2]
    ELSE a

\* Store val at 0-based index at of the grown array, the elements from at on
\* moved one place right (the shift loops of unshift and insert; push has none).
hml_store(a, at, val) ==
    LET g == hml_grow(a)
    IN  [g EXCEPT !.elements = SubSeq(g.elements, 1, at) \o <<val>>
                                 \o SubSeq(g.elements, at + 1, g.length),
                  !.length = g.length + 1]

hml_array_push(arrv, val) ==
    IF NotArray(arrv) THEN hml_runtime_error(NULL, <<"push() requires array">>)
    ELSE LET a == arrv.as_array
         IN  IF a.element_type # "NULL" /\ val.type # a.element_type
             THEN hml_runtime_error(a, TypeMismatch)
             ELSE ArrOutcome(hml_store(a, a.length, val), FALSE, <<>>, val_null)

\* Mutant of hml_array_get: an index outside the array yields null instead of
\* the runtime error.
hml_array_get_lenient(arrv, idx) ==
    IF NotArray(arrv) THEN hml_runtime_error(NULL, <<"Index access requires array">>)
    ELSE LET a == arrv.as_array
         IN  IF idx < 0 \/ idx >= a.length
             THEN ArrOutcome(a, FALSE, <<>>, val_null)
             ELSE ArrOutcome(a, FALSE, <<>>, a.elements[idx + 1])

hml_array_get(arrv, idx) ==
    IF NotArray(arrv) THEN hml_runtime_error(NULL, <<"Index access requires array">>)
    ELSE LET a == arrv.as_array
         IN  IF idx < 0 \/ idx >= a.length
             THEN hml_runtime_error(a, <<"Array index out of bounds", idx, a.length>>)
             ELSE ArrOutcome(a, FALSE, <<>>, a.elements[idx + 1])

\* The loop `while (idx >= a->length)` of hml_array_set: grow, store
\* hml_val_null() at index length, length++.
RECURSIVE hml_fill(_, _)
hml_fill(a, idx) ==
    IF idx >= a.length THEN hml_fill(hml_store(a, a.length, val_null), idx) ELSE a

\* Mutant of hml_array_set: the gap below idx is filled with the stored value
\* instead of null.
RECURSIVE hml_fill_with(_, _, _)
hml_fill_with(a, idx, val) ==
    IF idx >= a.length THEN hml_fill_with(hml_store(a, a.length, val), idx, val) ELSE a

hml_array_set_fill_value(arrv, idx, val) ==
    IF NotArray(arrv) THEN hml_runtime_error(NULL, <<"Index assignment requires array">>)
    ELSE LET a == arrv.as_array
         IN  IF a.element_type # "NULL" /\ val.type # a.element_type
             THEN hml_runtime_error(a, TypeMismatch)
             ELSE IF idx < 0
             THEN hml_runtime_error(a, <<"Negative array index not supported">>)
             ELSE ArrOutcome([hml_fill_with(a, idx, val) EXCEPT !.elements[idx + 1] = val],
                             FALSE, <<>>, val_null)

\* Mutant of hml_array_set: the array is extended before the element type is
\* checked.
hml_array_set_fill_first(arrv, idx, val) ==
    IF NotArray(arrv) THEN hml_runtime_error(NULL, <<"Index assignment requires array">>)
    ELSE LET a == arrv.as_array
         IN  IF idx < 0
             THEN hml_runtime_error(a, <<"Negative array index not supported">>)
             ELSE IF a.element_type # "NULL" /\ val.type # a.element_type
             THEN hml_runtime_error(hml_fill(a, idx), TypeMismatch)
             ELSE ArrOutcome([hml_fill(a, idx) EXCEPT !.elements[idx + 1] = val],
                             FALSE, <<>>, val_null)

hml_array_set(arrv, idx, val) ==
    IF NotArray(arrv) THEN hml_runtime_error(NULL, <<"Index assignment requires array">>)
    ELSE LET a == arrv.as_array
         IN  IF a.element_type # "NULL" /\ val.type # a.element_type
             THEN hml_runtime_error(a, TypeMismatch)
             ELSE IF idx < 0
             THEN hml_runtime_error(a, <<"Negative array index not supported">>)
             ELSE ArrOutcome([hml_fill(a, idx) EXCEPT !.elements[idx + 1] = val],
                             FALSE, <<>>, val_null)

hml_array_unshift(arrv, val) ==
    IF NotArray(arrv) THEN hml_runtime_error(NULL, <<"unshift() requires array">>)
    ELSE LET a == arrv.as_array
         IN  IF a.element_type # "NULL" /\ val.type # a.element_type
             THEN hml_runtime_error(a, TypeMismatch)
             ELSE ArrOutcome(hml_store(a, 0, val), FALSE, <<>>, val_null)

hml_array_insert(arrv, idx, val) ==
    IF NotArray(arrv) THEN hml_runtime_error(NULL, <<"insert() requires array">>)
    ELSE LET a == arrv.as_array
         IN  IF a.element_type # "NULL" /\ val.type # a.element_type
             THEN hml_runtime_error(a, TypeMismatch)
             ELSE IF idx < 0 \/ idx > a.length
             THEN hml_runtime_error(a, <<"insert index out of bounds", idx, a.length>>)
             ELSE ArrOutcome(hml_store(a, idx, val), FALSE, <<>>, val_null)

\* hml_type_matches
hml_type_matches(val, expected) == expected = "NULL" \/ val.type = expected

hml_validate_typed_array(arrv, element_type) ==
    IF NotArray(arrv) THEN hml_runtime_error(NULL, <<"Expected array">>)
    ELSE LET a == arrv.as_array
         IN  IF element_type = "NULL" THEN ArrOutcome(a, FALSE, <<>>, arrv)
             ELSE IF \E i \in 1..a.length : ~hml_type_matches(a.elements[i], element_type)
             THEN hml_runtime_error(a, TypeMismatch)
             ELSE LET typed == [a EXCEPT !.element_type = element_type]
                  IN  ArrOutcome(typed, FALSE, <<>>, ArrayValue(typed))

\* ------------------------------------- builtins_array.c: move out and copy
hml_array_pop(arrv) ==
    IF NotArray(arrv) THEN hml_runtime_error(NULL, <<"pop() requires array">>)
    ELSE LET a == arrv.as_array
         IN  IF a.length = 0 THEN ArrOutcome(a, FALSE, <<>>, val_null)
             ELSE ArrOutcome([a EXCEPT !.elements = SubSeq(a.elements, 1, a.length - 1),
                                       !.length = a.length - 1],
                             FALSE, <<>>, a.elements[a.length])

\* The elements of a with 0-based index idx taken out and the ones behind it
\* moved one place left (the shift loops of shift and remove), length--.
hml_take(a, idx) ==
    [a EXCEPT !.elements = SubSeq(a.elements, 1, idx)
                             \o SubSeq(a.elements, idx + 2, a.length),
              !.length = a.length - 1]

hml_array_shift(arrv) ==
    IF NotArray(arrv) THEN hml_runtime_error(NULL, <<"shift() requires array">>)
    ELSE LET a == arrv.as_array
         IN  IF a.length = 0 THEN ArrOutcome(a, FALSE, <<>>, val_null)
             ELSE ArrOutcome(hml_take(a, 0), FALSE, <<>>, a.elements[1])

\* Mutant of hml_array_remove: the last element is moved into the gap
\* instead of the later elements moving one place left.
hml_array_remove_swap(arrv, idx) ==
    IF NotArray(arrv) THEN hml_runtime_error(NULL, <<"remove() requires array">>)
    ELSE LET a == arrv.as_array
         IN  IF idx < 0 \/ idx >= a.length
             THEN hml_runtime_error(a, <<"remove index out of bounds", idx, a.length>>)
             ELSE ArrOutcome([a EXCEPT !.elements =
                                  [k \in 1..(a.length - 1) |->
                                      IF k = idx + 1 THEN a.elements[a.length]
                                      ELSE a.elements[k]],
                                       !.length = a.length - 1],
                             FALSE, <<>>, a.elements[idx + 1])

hml_array_remove(arrv, idx) ==
    IF NotArray(arrv) THEN hml_runtime_error(NULL, <<"remove() requires array">>)
    ELSE LET a == arrv.as_array
         IN  IF idx < 0 \/ idx >= a.length
             THEN hml_runtime_error(a, <<"remove index out of bounds", idx, a.length>>)
             ELSE ArrOutcome(hml_take(a, idx), FALSE, <<>>, a.elements[idx + 1])

hml_array_first(arrv) ==
    IF NotArray(arrv) THEN hml_runtime_error(NULL, <<"first() requires array">>)
    ELSE LET a == arrv.as_array
         IN  IF a.length = 0 THEN ArrOutcome(a, FALSE, <<>>, val_null)
             ELSE ArrOutcome(a, FALSE, <<>>, a.elements[1])

hml_array_last(arrv) ==
    IF NotArray(arrv) THEN hml_runtime_error(NULL, <<"last() requires array">>)
    ELSE LET a == arrv.as_array
         IN  IF a.length = 0 THEN ArrOutcome(a, FALSE, <<>>, val_null)
             ELSE ArrOutcome(a, FALSE, <<>>, a.elements[a.length])

hml_array_clear(arrv) ==
    IF NotArray(arrv) THEN hml_runtime_error(NULL, <<"clear() requires array">>)
    ELSE ArrOutcome([arrv.as_array EXCEPT !.elements = <<>>, !.length = 0],
                    FALSE, <<>>, val_null)

\* The array malloc'ed by slice and concat: ref_count 1, capacity new_len or
\* 1, element_type HML_VAL_NULL.
hml_result_array(elements) ==
    [kind |-> "HmlArray", elements |-> elements, length |-> Len(elements),
     capacity |-> IF Len(elements) > 0 THEN Len(elements) ELSE 1,
     element_type |-> "NULL", ref_count |-> 1]

\* Mutant of hml_array_slice: the copy carries the element_type of its source.
hml_array_slice_typed(arrv, start, end) ==
    IF NotArray(arrv) THEN hml_runtime_error(NULL, <<"slice() requires array">>)
    ELSE LET a == arrv.as_array
             s0 == IF start < 0 THEN 0 ELSE start
             e == IF end > a.length THEN a.length ELSE end
             s == IF s0 > e THEN e ELSE s0
             r == hml_result_array(SubSeq(a.elements, s + 1, e))
         IN  ArrOutcome(a, FALSE, <<>>,
                        ArrayValue([r EXCEPT !.element_type = a.element_type]))

\* Mutant of hml_slice_range: the end index is taken as inclusive.
hml_slice_range_inclusive(a, start, end) ==
    LET s0 == IF start < 0 THEN 0 ELSE start
        e == IF end + 1 > a.length THEN a.length ELSE end + 1
        s == IF s0 > e THEN e ELSE s0
    IN  [s |-> s, new_len |-> e - s]

\* The clamping of hml_array_slice: `if (s < 0) s = 0; if (e > a->length)
\* e = a->length; if (s > e) s = e; new_len = e - s`.
hml_slice_range(a, start, end) ==
    LET s0 == IF start < 0 THEN 0 ELSE start
        e == IF end > a.length THEN a.length ELSE end
        s == IF s0 > e THEN e ELSE s0
    IN  [s |-> s, new_len |-> e - s]

\* The indexes of a->elements read by the copy loop of hml_array_slice,
\* `result->elements[i] = a->elements[s + i]` for i < new_len.
hml_slice_reads(a, start, end) ==
    LET r == hml_slice_range(a, start, end)
    IN  {r.s + i : i \in 0..(r.new_len - 1)}

hml_array_slice(arrv, start, end) ==
    IF NotArray(arrv) THEN hml_runtime_error(NULL, <<"slice() requires array">>)
    ELSE LET a == arrv.as_array
             r == hml_slice_range(a, start, end)
         IN  ArrOutcome(a, FALSE, <<>>,
                        ArrayValue(hml_result_array(
                            [i \in 1..r.new_len |-> a.elements[r.s + i]])))

hml_array_concat(arrv1, arrv2) ==
    IF NotArray(arrv1) THEN hml_runtime_error(NULL, <<"concat() requires array">>)
    ELSE IF NotArray(arrv2)
    THEN hml_runtime_error(arrv1.as_array, <<"concat() requires array argument">>)
    ELSE LET a1 == arrv1.as_array
             a2 == arrv2.as_array
         IN  ArrOutcome(a1, FALSE, <<>>,
                        ArrayValue(hml_result_array(a1.elements \o a2.elements)))

\* ------------------------------- builtins_array.c: higher-order functions
\* The callbacks given to map and reduce. "combine" computes a value from its
\* arguments; "popping" computes the same value after it has popped the last
\* element off the array that is being iterated.
Callbacks == {"combine", "popping"}

\* The callback does not modify the array.
Pure(fn) == fn = "combine"

\* A number for each value: the payload of an i32, 3 for a string, 0 for null.
Num(v) == IF v.type = "I32" THEN v.v ELSE IF v.type = "STRING" THEN 3 ELSE 0

\* hml_call_function(fn, args, num_args) while the array is a: the array
\* after the callback has run, and the value it returned. The value is
\* 2 * x + 1 for one argument x and 2 * acc + x for two.
hml_call_function(fn, args, a) ==
    [arr |-> IF Pure(fn) THEN a ELSE hml_array_pop(ArrayValue(a)).arr,
     ret |-> IF Len(args) = 1 THEN val_i32(2 * Num(args[1]) + 1)
             ELSE val_i32(2 * Num(args[1]) + Num(args[2]))]

\* The outcome of map, filter or reduce: as ArrOutcome, with the argument
\* lists of the callback calls made, in call order, and the reads of
\* a->elements made: the index, and a->length at the time of the read.
HofOutcome(a, exited, msg, ret, trace, reads) ==
    [arr |-> a, exited |-> exited, msg |-> msg, ret |-> ret, trace |-> trace,
     reads |-> reads]

\* A read of a->elements[i].
Read(a, i) == [idx |-> i, length |-> a.length]

\* `for (int i = ...; i < a->length; i++)` of hml_array_map: call the
\* callback on elements[i], push what it returned, release it.
RECURSIVE hml_map_loop(_, _, _, _, _, _)
hml_map_loop(a, fn, i, res, trace, reads) ==
    IF i < a.length
    THEN LET args == <<a.elements[i + 1]>>
             c == hml_call_function(fn, args, a)
         IN  hml_map_loop(c.arr, fn, i + 1,
                          hml_array_push(ArrayValue(res), c.ret).arr,
                          Append(trace, args), Append(reads, Read(a, i)))
    ELSE HofOutcome(a, FALSE, <<>>, ArrayValue(res), trace, reads)

\* Mutant of hml_array_map: the mapped values are put in front of the
\* result instead of behind it.
hml_array_map_reversed(arrv, fn) ==
    IF NotArray(arrv)
    THEN HofOutcome(NULL, TRUE, <<"map() requires array">>, val_null, <<>>, <<>>)
    ELSE LET o == hml_map_loop(arrv.as_array, fn, 0, hml_val_array, <<>>, <<>>)
             r == o.ret.as_array
         IN  [o EXCEPT !.ret = ArrayValue(
                  [r EXCEPT !.elements = [k \in 1..r.length |->
                                             r.elements[r.length + 1 - k]]])]

hml_array_map(arrv, fn) ==
    IF NotArray(arrv)
    THEN HofOutcome(NULL, TRUE, <<"map() requires array">>, val_null, <<>>, <<>>)
    ELSE hml_map_loop(arrv.as_array, fn, 0, hml_val_array, <<>>, <<>>)

\* hml_to_bool of what a callback returned: an i32 is true unless it is 0.
hml_to_bool(v) == v.type = "I32" /\ v.v # 0

\* The slot a->elements[i] as the loop of hml_array_filter reads it after
\* the callback: the element, or, once the callback has popped it, what the
\* slot held before (pop only decrements the length).
Slot(a, before, i) == IF i < a.length THEN a.elements[i + 1] ELSE before.elements[i + 1]

\* `for (int i = 0; i < a->length; i++)` of hml_array_filter: call the
\* predicate on elements[i]; if it holds, read elements[i] again and push it.
RECURSIVE hml_filter_loop(_, _, _, _, _, _)
hml_filter_loop(a, fn, i, res, trace, reads) ==
    IF i < a.length
    THEN LET args == <<a.elements[i + 1]>>
             c == hml_call_function(fn, args, a)
         IN  IF hml_to_bool(c.ret)
             THEN hml_filter_loop(c.arr, fn, i + 1,
                                  hml_array_push(ArrayValue(res), Slot(c.arr, a, i)).arr,
                                  Append(trace, args),
                                  reads \o <<Read(a, i), Read(c.arr, i)>>)
             ELSE hml_filter_loop(c.arr, fn, i + 1, res, Append(trace, args),
                                  Append(reads, Read(a, i)))
    ELSE HofOutcome(a, FALSE, <<>>, ArrayValue(res), trace, reads)

hml_array_filter(arrv, fn) ==
    IF NotArray(arrv)
    THEN HofOutcome(NULL, TRUE, <<"filter() requires array">>, val_null, <<>>, <<>>)
    ELSE hml_filter_loop(arrv.as_array, fn, 0, hml_val_array, <<>>, <<>>)

\* `for (int i = start_idx; i < a->length; i++)` of hml_array_reduce.
RECURSIVE hml_reduce_loop(_, _, _, _, _, _)
hml_reduce_loop(a, fn, i, acc, trace, reads) ==
    IF i < a.length
    THEN LET args == <<acc, a.elements[i + 1]>>
             c == hml_call_function(fn, args, a)
         IN  hml_reduce_loop(c.arr, fn, i + 1, c.ret, Append(trace, args),
                             Append(reads, Read(a, i)))
    ELSE HofOutcome(a, FALSE, <<>>, acc, trace, reads)

EmptyReduce == <<"reduce() of empty array with no initial value">>

\* Mutant of hml_array_reduce: without an initial value the loop still starts
\* at index 0, so element 0 is folded twice.
hml_array_reduce_from_zero(arrv, fn, initial) ==
    IF NotArray(arrv)
    THEN HofOutcome(NULL, TRUE, <<"reduce() requires array">>, val_null, <<>>, <<>>)
    ELSE LET a == arrv.as_array
         IN  IF a.length = 0
             THEN IF initial.type = "NULL"
                  THEN HofOutcome(a, TRUE, EmptyReduce, val_null, <<>>, <<>>)
                  ELSE HofOutcome(a, FALSE, <<>>, initial, <<>>, <<>>)
             ELSE IF initial.type = "NULL"
             THEN hml_reduce_loop(a, fn, 0, a.elements[1], <<>>, <<Read(a, 0)>>)
             ELSE hml_reduce_loop(a, fn, 0, initial, <<>>, <<>>)

hml_array_reduce(arrv, fn, initial) ==
    IF NotArray(arrv)
    THEN HofOutcome(NULL, TRUE, <<"reduce() requires array">>, val_null, <<>>, <<>>)
    ELSE LET a == arrv.as_array
         IN  IF a.length = 0
             THEN IF initial.type = "NULL"
                  THEN HofOutcome(a, TRUE, EmptyReduce, val_null, <<>>, <<>>)
                  ELSE HofOutcome(a, FALSE, <<>>, initial, <<>>, <<>>)
             ELSE IF initial.type = "NULL"
             THEN hml_reduce_loop(a, fn, 1, a.elements[1], <<>>, <<Read(a, 0)>>)
             ELSE hml_reduce_loop(a, fn, 0, initial, <<>>, <<>>)

\* ------------------------------------------------------ array operations
NoArrCall == [op |-> "none", onarray |-> TRUE, idx |-> 0, val |-> val_null,
              ret |-> val_null]

\* The HmlValue handed to a runtime call: the array, or a value that is none.
Targets == {ArrayValue(arr), val_null}

\* What an array call leaves behind. A call on a value that is no array
\* leaves the array alone.
ArrFinish(o, call) ==
    /\ arr' = IF call.onarray THEN o.arr ELSE arr
    /\ status' = IF o.exited THEN "exit1" ELSE "running"
    /\ stderr' = o.msg
    /\ last' = [call EXCEPT !.ret = o.ret]
    /\ UNCHANGED <<heap, calls, written, scopes, cur, addedVars>>

ArrayPush ==
    /\ status = "running" /\ arr.kind = "Array"
    /\ arr.length < MaxLen
    /\ \E val \in ArrVals :
         ArrFinish(ArrOutcome(array_push(arr, val), FALSE, <<>>, val_null),
                   [NoArrCall EXCEPT !.op = "push", !.val = val])

ArrayPop ==
    /\ status = "running" /\ arr.kind = "Array"
    /\ ArrFinish(array_pop(arr), [NoArrCall EXCEPT !.op = "pop"])

ArrayGet ==
    /\ status = "running" /\ arr.kind = "Array"
    /\ \E index \in Indexes :
         ArrFinish(array_get(arr, index), [NoArrCall EXCEPT !.op = "get", !.idx = index])

ArraySet ==
    /\ status = "running" /\ arr.kind = "Array"
    /\ \E index \in Indexes, val \in ArrVals :
         /\ index < MaxLen
         /\ ArrFinish(array_set(arr, index, val),
                      [NoArrCall EXCEPT !.op = "set", !.idx = index, !.val = val])

HmlArrayPush ==
    /\ status = "running" /\ arr.kind = "HmlArray"
    /\ arr.length < MaxLen
    /\ \E arrv \in Targets, val \in ArrVals :
         ArrFinish(hml_array_push(arrv, val),
                   [NoArrCall EXCEPT !.op = "push", !.onarray = ~NotArray(arrv),
                                     !.val = val])

HmlArrayGet ==
    /\ status = "running" /\ arr.kind = "HmlArray"
    /\ \E arrv \in Targets, idx \in Indexes :
         ArrFinish(hml_array_get(arrv, idx),
                   [NoArrCall EXCEPT !.op = "get", !.onarray = ~NotArray(arrv),
                                     !.idx = idx])

HmlArraySet ==
    /\ status = "running" /\ arr.kind = "HmlArray"
    /\ \E arrv \in Targets, idx \in Indexes, val \in ArrVals :
         /\ idx < MaxLen
         /\ ArrFinish(hml_array_set(arrv, idx, val),
                      [NoArrCall EXCEPT !.op = "set", !.onarray = ~NotArray(arrv),
                                        !.idx = idx, !.val = val])

HmlArrayUnshift ==
    /\ status = "running" /\ arr.kind = "HmlArray"
    /\ arr.length < MaxLen
    /\ \E arrv \in Targets, val \in ArrVals :
         ArrFinish(hml_array_unshift(arrv, val),
                   [NoArrCall EXCEPT !.op = "unshift", !.onarray = ~NotArray(arrv),
                                     !.val = val])

HmlArrayInsert ==
    /\ status = "running" /\ arr.kind = "HmlArray"
    /\ arr.length < MaxLen
    /\ \E arrv \in Targets, idx \in Indexes, val \in ArrVals :
         ArrFinish(hml_array_insert(arrv, idx, val),
                   [NoArrCall EXCEPT !.op = "insert", !.onarray = ~NotArray(arrv),
                                     !.idx = idx, !.val = val])

HmlValidateTypedArray ==
    /\ status = "running" /\ arr.kind = "HmlArray"
    /\ \E arrv \in Targets, element_type \in ElemTypes :
         ArrFinish(hml_validate_typed_array(arrv, element_type),
                   [NoArrCall EXCEPT !.op = "validate", !.onarray = ~NotArray(arrv)])

\* A call of map or reduce: the callback, the initial value (in val), and
\* the callback calls made.
NoHofCall == [op |-> "none", onarray |-> TRUE, idx |-> 0, val |-> val_null,
              ret |-> val_null, fn |-> "", trace |-> <<>>]

HmlArrayMap ==
    /\ status = "running" /\ arr.kind = "HmlArray"
    /\ \E arrv \in Targets, fn \in Callbacks :
         LET o == hml_array_map(arrv, fn)
         IN  ArrFinish(o, [NoHofCall EXCEPT !.op = "map", !.onarray = ~NotArray(arrv),
                                            !.fn = fn, !.trace = o.trace])

HmlArrayReduce ==
    /\ status = "running" /\ arr.kind = "HmlArray"
    /\ \E arrv \in Targets, fn \in Callbacks, initial \in {val_null, val_i32(1)} :
         LET o == hml_array_reduce(arrv, fn, initial)
         IN  ArrFinish(o, [NoHofCall EXCEPT !.op = "reduce", !.onarray = ~NotArray(arrv),
                                            !.fn = fn, !.val = initial,
                                            !.trace = o.trace])

InitArray ==
    /\ arr \in {array_new, hml_val_array}
    /\ status = "running"
    /\ stderr = <<>>
    /\ last = NoArrCall
    /\ calls = 0
    /\ heap = <<>>
    /\ written = <<>>
    /\ scopes = <<>>
    /\ cur = NULL
    /\ AddedIdle

NextArray ==
    \/ ArrayPush \/ ArrayPop \/ ArrayGet \/ ArraySet
    \/ HmlArrayPush \/ HmlArrayGet \/ HmlArraySet \/ HmlArrayUnshift
    \/ HmlArrayInsert \/ HmlValidateTypedArray
    \/ HmlArrayMap \/ HmlArrayReduce

SpecArray == InitArray /\ [][NextArray]_vars

\* ------------------------------------------------------ array properties
\* The step just taken is a call of op on the array.
ArrCalled(op) == last'.op = op /\ last'.onarray

\* The array is a runtime array with an element type.
Typed(a) == a.kind = "HmlArray" /\ a.element_type # "NULL"

\* C8: typed-array invariant. Every element of an array with element_type
\* T # HML_VAL_NULL has type T, and a push, unshift, insert or set of a value
\* of another type ends in the type-mismatch error.
C8_TypedArrayElementsMatch ==
    /\ Typed(arr) => \A i \in 1..arr.length : arr.elements[i].type = arr.element_type
    /\ (/\ last.op \in {"push", "unshift", "insert", "set"}
        /\ last.onarray
        /\ Typed(arr)
        /\ last.val.type # arr.element_type)
         => status = "exit1" /\ stderr = TypeMismatch

\* C9: array_get and hml_array_get are bounds-checked. With 0 <= i < length
\* the call returns elements[i]; for every other i it ends in "Array index i
\* out of bounds (length L)" with L the current length. The array is
\* unchanged either way.
C9_GetBoundsChecked ==
    [][ArrCalled("get") =>
            /\ arr' = arr
            /\ IF 0 <= last'.idx /\ last'.idx < arr.length
               THEN /\ status' = "running"
                    /\ last'.ret = arr.elements[last'.idx + 1]
               ELSE /\ status' = "exit1"
                    /\ stderr' = <<"Array index out of bounds", last'.idx, arr.length>>
      ]_vars

\* C9 witness: hml_array_get with the index equal to the length of a
\* non-empty array has ended in the bounds error.
C9_Witness ==
    /\ status = "exit1"
    /\ last.op = "get"
    /\ last.onarray
    /\ arr.kind = "HmlArray"
    /\ arr.length > 0
    /\ last.idx = arr.length
    /\ stderr = <<"Array index out of bounds", arr.length, arr.length>>

\* The array after a store at index i >= 0: the length is max(old length,
\* i + 1), elements[i] is val, the indexes from the old length up to i hold
\* null, every other element below the old length is unchanged.
Extended(old, new, i, val) ==
    /\ new.length = IF old.length > i + 1 THEN old.length ELSE i + 1
    /\ Len(new.elements) = new.length
    /\ new.elements[i + 1] = val
    /\ \A k \in 1..new.length :
         k # i + 1 => new.elements[k] = IF k <= old.length THEN old.elements[k]
                                          ELSE val_null
    /\ new.kind = old.kind
    /\ new.kind = "HmlArray" => new.element_type = old.element_type

\* C10 as stated: array_set and hml_array_set with i >= 0 store val with null
\* padding, and with i < 0 end in "Negative array index not supported" with
\* the array unchanged.
C10_SetExtendsWithNull ==
    [][ArrCalled("set") =>
            IF last'.idx >= 0
            THEN status' = "running" /\ Extended(arr, arr', last'.idx, last'.val)
            ELSE /\ status' = "exit1"
                 /\ stderr' = <<"Negative array index not supported">>
                 /\ arr' = arr
      ]_vars

\* C10 amended: as stated, unless the array is typed and val is of another
\* type: then hml_array_set ends in the type-mismatch error for every index,
\* negative ones included, and the array is unchanged.
C10_SetExtendsWithNullUnlessMismatch ==
    [][ArrCalled("set") =>
            IF Typed(arr) /\ last'.val.type # arr.element_type
            THEN status' = "exit1" /\ stderr' = TypeMismatch /\ arr' = arr
            ELSE IF last'.idx >= 0
            THEN status' = "running" /\ Extended(arr, arr', last'.idx, last'.val)
            ELSE /\ status' = "exit1"
                 /\ stderr' = <<"Negative array index not supported">>
                 /\ arr' = arr
      ]_vars

\* C10 witness: hml_array_set at index 2 of a one-element array has put a
\* null at index 1 and the value at index 2, keeping element 0.
C10_Witness ==
    /\ status = "running"
    /\ last.op = "set"
    /\ last.onarray
    /\ arr.kind = "HmlArray"
    /\ last.idx = 2
    /\ arr.length = 3
    /\ arr.elements[1] = val_i32(1)
    /\ arr.elements[2] = val_null
    /\ arr.elements[3] = val_string(1)
    /\ last.val = val_string(1)

\* ------------------------------------------- higher-order array properties
\* The value the callback returns for args.
Returned(fn, args) == hml_call_function(fn, args, arr).ret

\* The left fold of fn over elems from acc, and the argument lists of the
\* calls it is made of.
RECURSIVE FoldLeft(_, _, _)
FoldLeft(fn, acc, elems) ==
    IF elems = <<>> THEN acc
    ELSE FoldLeft(fn, Returned(fn, <<acc, Head(elems)>>), Tail(elems))

RECURSIVE FoldCalls(_, _, _)
FoldCalls(fn, acc, elems) ==
    IF elems = <<>> THEN <<>>
    ELSE <<(<<acc, Head(elems)>>)>>
           \o FoldCalls(fn, Returned(fn, <<acc, Head(elems)>>), Tail(elems))

\* What reduce does on the array a according to the claim.
ReduceContract(a, fn, initial) ==
    IF a.length = 0
    THEN IF initial.type = "NULL"
         THEN status' = "exit1" /\ stderr' = EmptyReduce
         ELSE status' = "running" /\ last'.ret = initial /\ last'.trace = <<>>
    ELSE LET acc == IF initial.type = "NULL" THEN a.elements[1] ELSE initial
             rest == IF initial.type = "NULL" THEN Tail(a.elements) ELSE a.elements
         IN  /\ status' = "running"
             /\ last'.ret = FoldLeft(fn, acc, rest)
             /\ last'.trace = FoldCalls(fn, acc, rest)

\* C12 as stated: hml_array_reduce fails on an empty array without initial
\* value, returns the initial value of an empty array without a call, and
\* otherwise returns the left fold, one call per folded element in index
\* order with (accumulator, element) as arguments, for every callback.
C12_ReduceIsLeftFold ==
    [][ArrCalled("reduce") => ReduceContract(arr, last'.fn, last'.val)]_vars

\* C12 amended: as stated, for a callback that does not modify the array.
C12_ReduceIsLeftFoldPureCallback ==
    [][(ArrCalled("reduce") /\ Pure(last'.fn))
          => ReduceContract(arr, last'.fn, last'.val)]_vars

\* C12 witness: reduce without initial value over three elements has made
\* two calls, the first one on (element 0, element 1).
C12_Witness ==
    /\ status = "running"
    /\ last.op = "reduce"
    /\ last.onarray
    /\ Pure(last.fn)
    /\ last.val = val_null
    /\ arr.length = 3
    /\ Len(last.trace) = 2
    /\ last.trace[1] = <<arr.elements[1], arr.elements[2]>>

\* C13: hml_array_map with a callback that does not modify the array returns
\* a new array of the same length whose i-th element is f(arr[i]), calls f
\* once per element in increasing index order, and leaves the array as it was.
C13_MapElementwise ==
    [][(ArrCalled("map") /\ Pure(last'.fn)) =>
            /\ status' = "running"
            /\ arr' = arr
            /\ last'.ret.type = "ARRAY"
            /\ last'.ret.as_array.length = arr.length
            /\ Len(last'.ret.as_array.elements) = arr.length
            /\ \A i \in 1..arr.length :
                 last'.ret.as_array.elements[i] = Returned(last'.fn, <<arr.elements[i]>>)
            /\ last'.trace = [i \in 1..arr.length |-> <<arr.elements[i]>>]
      ]_vars

\* C13 witness: map over three elements of different types has returned
\* three values.
C13_Witness ==
    /\ status = "running"
    /\ last.op = "map"
    /\ last.onarray
    /\ Pure(last.fn)
    /\ arr.length = 3
    /\ arr.elements[1] # arr.elements[3]
    /\ last.ret.as_array.length = 3
    /\ last.ret.as_array.elements[3] = val_i32(2 * Num(arr.elements[3]) + 1)

\* ------------------------------------------- runtime heap: retain, release
\* The heap Strings a run may allocate, by address.
Strings == {1, 2}

\* Heap kinds carry a reference count; primitives and null are by value.
IsHeap(val) == val.type = "STRING"

\* hml_retain, hml_retain_if_needed: ref_count++ on a heap value.
hml_retain(rf, val) == IF IsHeap(val) THEN [rf EXCEPT ![val.v] = @ + 1] ELSE rf

\* hml_release: ref_count-- on a heap value; the value is freed at 0.
hml_release(rf, val) == IF IsHeap(val) THEN [rf EXCEPT ![val.v] = @ - 1] ELSE rf

\* `for (i ...) hml_retain(&result->elements[i])`
RECURSIVE hml_retain_each(_, _)
hml_retain_each(rf, elements) ==
    IF elements = <<>> THEN rf
    ELSE hml_retain_each(hml_retain(rf, Head(elements)), Tail(elements))

\* `for (i ...) hml_release(&a->elements[i])`
RECURSIVE hml_release_each(_, _)
hml_release_each(rf, elements) ==
    IF elements = <<>> THEN rf
    ELSE hml_release_each(hml_release(rf, Head(elements)), Tail(elements))

\* The reference counts after each array call, rf being the counts before it.
\* A call that ends in hml_runtime_error has retained and released nothing.
hml_array_push_rc(rf, arrv, val) ==
    IF hml_array_push(arrv, val).exited THEN rf ELSE hml_retain(rf, val)

hml_array_unshift_rc(rf, arrv, val) ==
    IF hml_array_unshift(arrv, val).exited THEN rf ELSE hml_retain(rf, val)

hml_array_insert_rc(rf, arrv, idx, val) ==
    IF hml_array_insert(arrv, idx, val).exited THEN rf ELSE hml_retain(rf, val)

\* Mutant of hml_array_set_rc: the overwritten element is not released.
hml_array_set_rc_no_release(rf, arrv, idx, val) ==
    IF hml_array_set(arrv, idx, val).exited THEN rf ELSE hml_retain(rf, val)

\* hml_array_set: release elements[idx] (null where the array was extended),
\* store, retain.
hml_array_set_rc(rf, arrv, idx, val) ==
    IF hml_array_set(arrv, idx, val).exited THEN rf
    ELSE hml_retain(hml_release(rf, hml_fill(arrv.as_array, idx).elements[idx + 1]), val)

hml_array_get_rc(rf, arrv, idx) ==
    LET o == hml_array_get(arrv, idx)
    IN  IF o.exited THEN rf ELSE hml_retain(rf, o.ret)

hml_array_first_rc(rf, arrv) ==
    LET o == hml_array_first(arrv)
    IN  IF o.exited THEN rf ELSE hml_retain(rf, o.ret)

hml_array_last_rc(rf, arrv) ==
    LET o == hml_array_last(arrv)
    IN  IF o.exited THEN rf ELSE hml_retain(rf, o.ret)

\* Mutant of hml_array_pop_rc: the popped element is released although it is
\* handed to the caller.
hml_array_pop_rc_release(rf, arrv) ==
    LET o == hml_array_pop(arrv)
    IN  IF o.exited THEN rf ELSE hml_release(rf, o.ret)

\* pop, shift, remove: "Don't release - we're transferring ownership".
hml_array_pop_rc(rf, arrv) == rf

hml_array_shift_rc(rf, arrv) == rf

hml_array_remove_rc(rf, arrv, idx) == rf

hml_array_clear_rc(rf, arrv) ==
    IF hml_array_clear(arrv).exited THEN rf
    ELSE hml_release_each(rf, arrv.as_array.elements)

hml_array_slice_rc(rf, arrv, start, end) ==
    LET o == hml_array_slice(arrv, start, end)
    IN  IF o.exited THEN rf ELSE hml_retain_each(rf, o.ret.as_array.elements)

hml_array_concat_rc(rf, arrv1, arrv2) ==
    LET o == hml_array_concat(arrv1, arrv2)
    IN  IF o.exited THEN rf ELSE hml_retain_each(rf, o.ret.as_array.elements)

\* hml_release of an array whose ref_count is 1: the count reaches 0 and the
\* destructor releases every element.
hml_release_array(rf, a) == hml_release_each(rf, a.elements)

\* ------------------------------------------------- runtime heap operations
\* No array returned by slice or concat is held.
NoResult == [kind |-> "none", elements |-> <<>>, length |-> 0]

\* The last call on the runtime heap: the operation, and whether it returned a
\* heap value to the caller.
NoRcCall == [op |-> "none", heapret |-> FALSE]

\* The values the caller can pass: null, and the Strings it holds a handle to.
Passable == {val_null} \cup {val_string(s) : s \in {t \in Strings : owned[t] > 0}}

\* The caller receives an owned value.
Own(own, val) == IF IsHeap(val) THEN [own EXCEPT ![val.v] = @ + 1] ELSE own

\* Number of handles the caller holds.
RECURSIVE Held(_, _)
Held(own, ss) ==
    IF ss = {} THEN 0
    ELSE LET s == CHOOSE t \in ss : TRUE IN own[s] + Held(own, ss \ {s})

\* One more handle can be handed out within the bound.
RoomToOwn == Held(owned, Strings) < MaxOwned

\* What a runtime call leaves behind: the two arrays, the counts, the caller's
\* handles, and exit(1) with the message after hml_runtime_error.
Rc(a, r, rf, own, o, call) ==
    /\ arr' = a
    /\ result' = r
    /\ refs' = rf
    /\ owned' = own
    /\ status' = IF o.exited THEN "exit1" ELSE "running"
    /\ stderr' = o.msg
    /\ last' = [call EXCEPT !.heapret = ~o.exited /\ IsHeap(o.ret)]
    /\ UNCHANGED <<heap, calls, written, scopes, cur, strVars, lwsVars, inferVars>>

\* A store into the array.
RcStore(rf, o, call) == Rc(o.arr, result, rf, owned, o, call)

\* A copy or move out of the array: the caller owns what is returned.
RcTake(rf, o, call) ==
    Rc(o.arr, result, rf, IF o.exited THEN owned ELSE Own(owned, o.ret), o, call)

\* hml_val_string: a new heap String with ref_count 1, owned by the caller.
RcNewString ==
    /\ status = "running"
    /\ RoomToOwn
    /\ \E s \in Strings :
         /\ refs[s] = 0
         /\ Rc(arr, result, [refs EXCEPT ![s] = 1], [owned EXCEPT ![s] = 1],
               ArrOutcome(arr, FALSE, <<>>, val_string(s)),
               [NoRcCall EXCEPT !.op = "new"])

\* The caller discards an owned value: hml_release.
RcRelease ==
    /\ status = "running"
    /\ \E s \in Strings :
         /\ owned[s] > 0
         /\ Rc(arr, result, hml_release(refs, val_string(s)),
               [owned EXCEPT ![s] = @ - 1],
               ArrOutcome(arr, FALSE, <<>>, val_null),
               [NoRcCall EXCEPT !.op = "release"])

RcPush ==
    /\ status = "running"
    /\ \E val \in Passable :
         /\ arr.length < MaxSlots
         /\ RcStore(hml_array_push_rc(refs, ArrayValue(arr), val),
                    hml_array_push(ArrayValue(arr), val),
                    [NoRcCall EXCEPT !.op = "push"])

RcUnshift ==
    /\ status = "running"
    /\ \E val \in Passable :
         /\ arr.length < MaxSlots
         /\ RcStore(hml_array_unshift_rc(refs, ArrayValue(arr), val),
                    hml_array_unshift(ArrayValue(arr), val),
                    [NoRcCall EXCEPT !.op = "unshift"])

RcInsert ==
    /\ status = "running"
    /\ \E idx \in -1..MaxSlots, val \in Passable :
         /\ arr.length < MaxSlots
         /\ RcStore(hml_array_insert_rc(refs, ArrayValue(arr), idx, val),
                    hml_array_insert(ArrayValue(arr), idx, val),
                    [NoRcCall EXCEPT !.op = "insert"])

RcSet ==
    /\ status = "running"
    /\ \E idx \in -1..(MaxSlots - 1), val \in Passable :
         RcStore(hml_array_set_rc(refs, ArrayValue(arr), idx, val),
                 hml_array_set(ArrayValue(arr), idx, val),
                 [NoRcCall EXCEPT !.op = "set"])

RcGet ==
    /\ status = "running" /\ RoomToOwn
    /\ \E idx \in -1..MaxSlots :
         RcTake(hml_array_get_rc(refs, ArrayValue(arr), idx),
                hml_array_get(ArrayValue(arr), idx),
                [NoRcCall EXCEPT !.op = "get"])

RcFirst ==
    /\ status = "running" /\ RoomToOwn
    /\ RcTake(hml_array_first_rc(refs, ArrayValue(arr)), hml_array_first(ArrayValue(arr)),
              [NoRcCall EXCEPT !.op = "first"])

RcLast ==
    /\ status = "running" /\ RoomToOwn
    /\ RcTake(hml_array_last_rc(refs, ArrayValue(arr)), hml_array_last(ArrayValue(arr)),
              [NoRcCall EXCEPT !.op = "last"])

RcPop ==
    /\ status = "running" /\ RoomToOwn
    /\ RcTake(hml_array_pop_rc(refs, ArrayValue(arr)), hml_array_pop(ArrayValue(arr)),
              [NoRcCall EXCEPT !.op = "pop"])

RcShift ==
    /\ status = "running" /\ RoomToOwn
    /\ RcTake(hml_array_shift_rc(refs, ArrayValue(arr)), hml_array_shift(ArrayValue(arr)),
              [NoRcCall EXCEPT !.op = "shift"])

RcRemove ==
    /\ status = "running" /\ RoomToOwn
    /\ \E idx \in -1..MaxSlots :
         RcTake(hml_array_remove_rc(refs, ArrayValue(arr), idx),
                hml_array_remove(ArrayValue(arr), idx),
                [NoRcCall EXCEPT !.op = "remove"])

RcClear ==
    /\ status = "running"
    /\ Rc(hml_array_clear(ArrayValue(arr)).arr, result,
          hml_array_clear_rc(refs, ArrayValue(arr)), owned,
          hml_array_clear(ArrayValue(arr)), [NoRcCall EXCEPT !.op = "clear"])

\* slice and concat: the caller holds the returned array.
RcSlice ==
    /\ status = "running"
    /\ result.kind = "none"
    /\ \E start \in -1..MaxSlots, end \in 0..(MaxSlots + 1) :
         LET o == hml_array_slice(ArrayValue(arr), start, end)
         IN  Rc(o.arr, o.ret.as_array,
                hml_array_slice_rc(refs, ArrayValue(arr), start, end), owned, o,
                [NoRcCall EXCEPT !.op = "slice"])

RcConcat ==
    /\ status = "running"
    /\ result.kind = "none"
    /\ 2 * arr.length <= MaxSlots
    /\ LET o == hml_array_concat(ArrayValue(arr), ArrayValue(arr))
       IN  Rc(o.arr, o.ret.as_array,
              hml_array_concat_rc(refs, ArrayValue(arr), ArrayValue(arr)), owned, o,
              [NoRcCall EXCEPT !.op = "concat"])

\* The caller discards the returned array: its count reaches 0, the array is
\* destroyed.
RcReleaseResult ==
    /\ status = "running"
    /\ result.kind = "HmlArray"
    /\ Rc(arr, NoResult, hml_release_array(refs, result), owned,
          ArrOutcome(arr, FALSE, <<>>, val_null),
          [NoRcCall EXCEPT !.op = "destroy"])

InitRc ==
    /\ arr = hml_val_array
    /\ result = NoResult
    /\ refs = [s \in Strings |-> 0]
    /\ owned = [s \in Strings |-> 0]
    /\ status = "running"
    /\ stderr = <<>>
    /\ last = NoRcCall
    /\ calls = 0
    /\ heap = <<>>
    /\ written = <<>>
    /\ scopes = <<>>
    /\ cur = NULL
    /\ StrIdle
    /\ InferIdle
    /\ LwsIdle

NextRc ==
    \/ RcNewString \/ RcRelease
    \/ RcPush \/ RcUnshift \/ RcInsert \/ RcSet
    \/ RcGet \/ RcFirst \/ RcLast
    \/ RcPop \/ RcShift \/ RcRemove
    \/ RcClear \/ RcSlice \/ RcConcat \/ RcReleaseResult

SpecRc == InitRc /\ [][NextRc]_vars

\* ------------------------------------------------ runtime heap properties
\* Number of slots of the array a that hold the String s.
Slots(a, s) == Cardinality({i \in 1..a.length : a.elements[i] = val_string(s)})

\* C11: reference-count balance. After any sequence of store, copy-out,
\* move-out and clear calls, the ref_count of every heap String equals the
\* number of array slots holding it plus the number of handles the caller
\* owns, and is >= 1 while a slot or a handle refers to it; the array the
\* caller holds has ref_count 1.
C11_RefcountBalance ==
    /\ \A s \in Strings :
         /\ refs[s] = Slots(arr, s) + Slots(result, s) + owned[s]
         /\ (Slots(arr, s) + Slots(result, s) + owned[s] > 0) => refs[s] >= 1
    /\ result.kind = "HmlArray" => result.ref_count = 1

\* C11 witness: a pop has moved a String out of the array while the returned
\* slice still holds it: one handle, one slot, count 2.
C11_Witness ==
    /\ last.op = "pop"
    /\ last.heapret
    /\ \E s \in Strings :
         /\ Slots(arr, s) = 0
         /\ Slots(result, s) = 1
         /\ owned[s] = 1
         /\ refs[s] = 2

\* ------------------------------------- slice and concat of typed arrays
\* The values stored: one of each type.
CopyVals == {val_i32(1), val_string(1), val_null}

\* The last call: the operation, the array it went to, index and value.
NoCopyCall == [op |-> "none", target |-> "arr", idx |-> 0, val |-> val_null]

\* The arrays at hand: the array, and the one slice or concat returned.
CopyTargets == {"arr"} \cup (IF result.kind = "HmlArray" THEN {"result"} ELSE {})

CopyTarget(t) == IF t = "arr" THEN arr ELSE result

\* What a call leaves behind: the two arrays, and exit(1) with the message
\* after hml_runtime_error.
Copy(a, r, o, call) ==
    /\ arr' = a
    /\ result' = r
    /\ status' = IF o.exited THEN "exit1" ELSE "running"
    /\ stderr' = o.msg
    /\ last' = call
    /\ UNCHANGED <<heap, calls, written, scopes, cur, refs, owned, strVars, lwsVars, inferVars>>

\* A store into target t.
CopyStore(t, o, call) ==
    Copy(IF t = "arr" THEN o.arr ELSE arr, IF t = "result" THEN o.arr ELSE result,
         o, [call EXCEPT !.target = t])

CopyPush ==
    /\ status = "running"
    /\ \E t \in CopyTargets, val \in CopyVals :
         /\ CopyTarget(t).length < MaxSlots
         /\ CopyStore(t, hml_array_push(ArrayValue(CopyTarget(t)), val),
                      [NoCopyCall EXCEPT !.op = "push", !.val = val])

CopyInsert ==
    /\ status = "running"
    /\ \E t \in CopyTargets, idx \in -1..MaxSlots, val \in CopyVals :
         /\ CopyTarget(t).length < MaxSlots
         /\ CopyStore(t, hml_array_insert(ArrayValue(CopyTarget(t)), idx, val),
                      [NoCopyCall EXCEPT !.op = "insert", !.idx = idx, !.val = val])

CopySet ==
    /\ status = "running"
    /\ \E t \in CopyTargets, idx \in -1..(MaxSlots - 1), val \in CopyVals :
         CopyStore(t, hml_array_set(ArrayValue(CopyTarget(t)), idx, val),
                   [NoCopyCall EXCEPT !.op = "set", !.idx = idx, !.val = val])

CopyValidate ==
    /\ status = "running"
    /\ \E element_type \in ElemTypes :
         LET o == hml_validate_typed_array(ArrayValue(arr), element_type)
         IN  Copy(o.arr, result, o, [NoCopyCall EXCEPT !.op = "validate"])

\* slice and concat: the caller keeps the returned array in place of the
\* one it held.
CopySlice ==
    /\ status = "running"
    /\ \E start \in -1..MaxSlots, end \in 0..(MaxSlots + 1) :
         LET o == hml_array_slice(ArrayValue(arr), start, end)
         IN  Copy(o.arr, o.ret.as_array, o,
                  [NoCopyCall EXCEPT !.op = "slice", !.idx = start])

CopyConcat ==
    /\ status = "running"
    /\ \E t \in CopyTargets :
         /\ arr.length + CopyTarget(t).length <= MaxSlots
         /\ LET o == hml_array_concat(ArrayValue(arr), ArrayValue(CopyTarget(t)))
            IN  Copy(o.arr, o.ret.as_array, o,
                     [NoCopyCall EXCEPT !.op = "concat", !.target = t])

InitCopy ==
    /\ arr = hml_val_array
    /\ result = NoResult
    /\ status = "running"
    /\ stderr = <<>>
    /\ last = NoCopyCall
    /\ refs = <<>>
    /\ owned = <<>>
    /\ calls = 0
    /\ heap = <<>>
    /\ written = <<>>
    /\ scopes = <<>>
    /\ cur = NULL
    /\ StrIdle
    /\ InferIdle
    /\ LwsIdle

NextCopy ==
    \/ CopyPush \/ CopyInsert \/ CopySet \/ CopyValidate \/ CopySlice \/ CopyConcat

SpecCopy == InitCopy /\ [][NextCopy]_vars

\* C14: the array returned by slice and by concat is untyped whatever the
\* element_type of its sources, the source array keeps its element_type,
\* length and elements, and a later push, insert (index within 0..length) or
\* set (index >= 0) of a value of any type into the returned array succeeds
\* and stores the value.
C14_CopyIsUntyped ==
    [][/\ last'.op \in {"slice", "concat"} =>
            /\ status' = "running"
            /\ result'.kind = "HmlArray"
            /\ result'.element_type = "NULL"
            /\ arr' = arr
       /\ (/\ last'.op \in {"push", "insert", "set"}
           /\ last'.target = "result"
           /\ last'.op = "insert" => (0 <= last'.idx /\ last'.idx <= result.length)
           /\ last'.op = "set" => 0 <= last'.idx) =>
            /\ status' = "running"
            /\ arr' = arr
            /\ result'.element_type = "NULL"
            /\ result'.elements[IF last'.op = "push" THEN result.length + 1
                                ELSE last'.idx + 1] = last'.val
      ]_vars

\* C14 witness: the array typed STRING was sliced, and an i32 was pushed into
\* the slice behind the string copied from it.
C14_Witness ==
    /\ status = "running"
    /\ last.op = "push"
    /\ last.target = "result"
    /\ arr.element_type = "STRING"
    /\ arr.length > 0
    /\ result.kind = "HmlArray"
    /\ result.length = 2
    /\ result.elements[1] = val_string(1)
    /\ result.elements[2] = val_i32(1)

\* ------------------------------------------------------ values.c: strings
\* The characters of the C strings given to string_new, and the terminator.
Chars == {97, 98}

NUL == 0

\* What malloc'ed memory may hold before it is written: every byte NUL, or
\* every byte something else.
Garbage == {NUL, 255}

\* The C strings of up to MaxChars characters (the NUL behind them not counted).
CStrings == UNION {[1..n -> Chars] : n \in 0..MaxChars}

\* strlen
strlen(cstr) == Len(cstr)

\* malloc(n): a new buffer of n bytes behind the ones allocated, its content g.
malloc(m, n, g) == Append(m, [k \in 1..n |-> g])

\* memcpy(dst + off, src, n) on the buffer contents dst and src.
memcpy(dst, off, src, n) ==
    [k \in 1..Len(dst) |-> IF off < k /\ k <= off + n THEN src[k - off] ELSE dst[k]]

\* A String struct and the memory after the call that made it.
Made(m, data, length, capacity) ==
    [mem |-> m, str |-> [data |-> data, length |-> length, capacity |-> capacity]]

string_new(m, cstr, g) ==
    LET len == strlen(cstr)
        m1 == malloc(m, len + 1, g)
        data == Len(m1)
        m2 == [m1 EXCEPT ![data] = memcpy(@, 0, cstr, len)]
        m3 == [m2 EXCEPT ![data][len + 1] = NUL]
    IN  Made(m3, data, len, len + 1)

\* Mutant of string_copy: the copy points at the buffer of the original.
string_copy_shared(m, str, g) == Made(m, str.data, str.length, str.capacity)

string_copy(m, str, g) ==
    LET m1 == malloc(m, str.capacity, g)
        data == Len(m1)
        m2 == [m1 EXCEPT ![data] = memcpy(@, 0, m[str.data], str.length + 1)]
    IN  Made(m2, data, str.length, str.capacity)

\* Mutant of string_concat: the terminating NUL is not written.
string_concat_unterminated(m, a, b, g) ==
    LET new_len == a.length + b.length
        m1 == malloc(m, new_len + 1, g)
        data == Len(m1)
        m2 == [m1 EXCEPT ![data] = memcpy(@, 0, m[a.data], a.length)]
        m3 == [m2 EXCEPT ![data] = memcpy(@, a.length, m[b.data], b.length)]
    IN  Made(m3, data, new_len, new_len + 1)

string_concat(m, a, b, g) ==
    LET new_len == a.length + b.length
        m1 == malloc(m, new_len + 1, g)
        data == Len(m1)
        m2 == [m1 EXCEPT ![data] = memcpy(@, 0, m[a.data], a.length)]
        m3 == [m2 EXCEPT ![data] = memcpy(@, a.length, m[b.data], b.length)]
        m4 == [m3 EXCEPT ![data][new_len + 1] = NUL]
    IN  Made(m4, data, new_len, new_len + 1)

\* ------------------------------------------------------ string operations
\* The last call: the operation, the Strings it was given (indexes in strs)
\* and the String it returned.
NoStrCall == [op |-> "none", a |-> 0, b |-> 0, ret |-> 0]

\* A call has returned the String made: it is kept behind the others.
Str(made, call) ==
    /\ strs' = Append(strs, made.str)
    /\ mem' = made.mem
    /\ last' = [call EXCEPT !.ret = Len(strs) + 1]
    /\ UNCHANGED <<heap, status, stderr, calls, written, scopes, cur, arr,
                   rcVars, inferVars, lwsVars>>

StringNew ==
    /\ Len(strs) < MaxStrings
    /\ \E cstr \in CStrings, g \in Garbage :
         Str(string_new(mem, cstr, g), [NoStrCall EXCEPT !.op = "new"])

StringCopy ==
    /\ Len(strs) < MaxStrings
    /\ \E i \in 1..Len(strs), g \in Garbage :
         Str(string_copy(mem, strs[i], g), [NoStrCall EXCEPT !.op = "copy", !.a = i])

StringConcat ==
    /\ Len(strs) < MaxStrings
    /\ \E i \in 1..Len(strs), j \in 1..Len(strs), g \in Garbage :
         /\ strs[i].length + strs[j].length <= MaxChars
         /\ Str(string_concat(mem, strs[i], strs[j], g),
                [NoStrCall EXCEPT !.op = "concat", !.a = i, !.b = j])

InitStr ==
    /\ strs = <<>>
    /\ mem = <<>>
    /\ last = NoStrCall
    /\ status = "running"
    /\ stderr = <<>>
    /\ calls = 0
    /\ heap = <<>>
    /\ written = <<>>
    /\ scopes = <<>>
    /\ cur = NULL
    /\ arr = NULL
    /\ RcIdle
    /\ InferIdle
    /\ LwsIdle

NextStr == StringNew \/ StringCopy \/ StringConcat

SpecStr == InitStr /\ [][NextStr]_vars

\* ------------------------------------------------------ string properties
\* The bytes of a String: data[0..length-1].
Content(str) == SubSeq(mem[str.data], 1, str.length)

\* C15: string invariant. Every String made by string_new, string_copy and
\* string_concat, in any chain, has capacity >= length + 1 and data[length] =
\* NUL; string_concat(a, b) has length a.length + b.length and holds a's
\* bytes followed by b's; string_copy has the length and bytes of its
\* original in a buffer of its own.
C15_StringInvariant ==
    /\ \A i \in 1..Len(strs) :
         /\ strs[i].capacity >= strs[i].length + 1
         /\ Len(mem[strs[i].data]) = strs[i].capacity
         /\ mem[strs[i].data][strs[i].length + 1] = NUL
    /\ last.op = "concat" =>
         /\ strs[last.ret].length = strs[last.a].length + strs[last.b].length
         /\ Content(strs[last.ret]) = Content(strs[last.a]) \o Content(strs[last.b])
    /\ last.op = "copy" =>
         /\ strs[last.ret].length = strs[last.a].length
         /\ Content(strs[last.ret]) = Content(strs[last.a])
         /\ strs[last.ret].data # strs[last.a].data
    /\ last.op \in {"new", "copy", "concat"} =>
         \A i \in 1..(Len(strs) - 1) : strs[last.ret].data # strs[i].data

\* C15 witness: "a" was concatenated with a second String holding "a": the
\* result holds 'a', 'a', NUL in a buffer of capacity 3.
C15_Witness ==
    /\ last.op = "concat"
    /\ last.a # last.b
    /\ Content(strs[last.a]) = <<97>>
    /\ strs[last.a].data # strs[last.b].data
    /\ mem[strs[last.ret].data] = <<97, 97, NUL>>
    /\ strs[last.ret].capacity = 3

\* ------------------------------------------------- type_infer.c: kinds
\* InferredTypeKind. An InferredType is modelled by its kind: every
\* constructor of type_infer.c sets element_type to NULL.
Kinds == {"UNKNOWN", "I32", "I64", "F64", "BOOL", "STRING", "NULL", "ARRAY",
          "OBJECT", "FUNCTION", "NUMERIC", "INTEGER"}

infer_is_integer(t) == t = "I32" \/ t = "I64" \/ t = "INTEGER"

infer_is_numeric(t) ==
    t = "I32" \/ t = "I64" \/ t = "F64" \/ t = "NUMERIC" \/ t = "INTEGER"

\* Mutant of infer_meet: the first kind, whatever the second.
infer_meet_first(a, b) == a

\* Mutant of infer_meet: the integer case is missing, so two different
\* integer kinds meet in NUMERIC.
infer_meet_no_integer(a, b) ==
    IF a = b THEN a
    ELSE IF a = "UNKNOWN" THEN a
    ELSE IF b = "UNKNOWN" THEN b
    ELSE IF infer_is_numeric(a) /\ infer_is_numeric(b) THEN "NUMERIC"
    ELSE "UNKNOWN"

infer_meet(a, b) ==
    IF a = b THEN a
    ELSE IF a = "UNKNOWN" THEN a
    ELSE IF b = "UNKNOWN" THEN b
    ELSE IF infer_is_integer(a) /\ infer_is_integer(b)
    THEN IF a = "I32" /\ b = "I32" THEN "I32"
         ELSE IF a = "I64" /\ b = "I64" THEN "I64"
         ELSE "INTEGER"
    ELSE IF infer_is_numeric(a) /\ infer_is_numeric(b) THEN "NUMERIC"
    ELSE "UNKNOWN"

\* BinaryOp: the arithmetic operators, and one of each other group.
BinaryOps == {"ADD", "SUB", "MUL", "DIV", "MOD", "EQUAL", "AND", "BIT_AND"}

\* Mutant of infer_binary_result: the string case of ADD is tried first.
infer_binary_result_string_first(op, left, right) ==
    IF op = "ADD" /\ (left = "STRING" \/ right = "STRING") THEN "STRING"
    ELSE IF op \in {"ADD", "SUB", "MUL"}
    THEN IF left = "F64" \/ right = "F64" THEN "F64"
         ELSE IF left = "I64" \/ right = "I64" THEN "I64"
         ELSE IF left = "I32" /\ right = "I32" THEN "I32"
         ELSE IF infer_is_integer(left) /\ infer_is_integer(right) THEN "INTEGER"
         ELSE IF infer_is_numeric(left) /\ infer_is_numeric(right) THEN "NUMERIC"
         ELSE "UNKNOWN"
    ELSE "UNKNOWN"

infer_binary_result(op, left, right) ==
    IF op \in {"ADD", "SUB", "MUL"}
    THEN IF left = "F64" \/ right = "F64" THEN "F64"
         ELSE IF left = "I64" \/ right = "I64" THEN "I64"
         ELSE IF left = "I32" /\ right = "I32" THEN "I32"
         ELSE IF infer_is_integer(left) /\ infer_is_integer(right) THEN "INTEGER"
         ELSE IF infer_is_numeric(left) /\ infer_is_numeric(right) THEN "NUMERIC"
         ELSE IF op = "ADD" /\ (left = "STRING" \/ right = "STRING") THEN "STRING"
         ELSE "UNKNOWN"
    ELSE IF op = "DIV" THEN "F64"
    ELSE IF op = "MOD"
    THEN IF left = "I64" \/ right = "I64" THEN "I64"
         ELSE IF left = "I32" /\ right = "I32" THEN "I32"
         ELSE IF infer_is_integer(left) /\ infer_is_integer(right) THEN "INTEGER"
         ELSE "NUMERIC"
    ELSE IF op \in {"EQUAL", "AND"} THEN "BOOL"
    ELSE IF op = "BIT_AND"
    THEN IF left = "I64" \/ right = "I64" THEN "I64"
         ELSE IF left = "I32" /\ right = "I32" THEN "I32"
         ELSE "INTEGER"
    ELSE "UNKNOWN"

\* ------------------------------------------------------- kind operations
\* Operand kinds not yet used in a call.
NoKinds == [call |-> "none", a |-> "UNKNOWN", b |-> "UNKNOWN", c |-> "UNKNOWN",
            op |-> "ADD", aa |-> "UNKNOWN", ab |-> "UNKNOWN", ba |-> "UNKNOWN",
            ab_c |-> "UNKNOWN", a_bc |-> "UNKNOWN", result |-> "UNKNOWN"]

\* infer_meet on the operands: a with itself, a with b both ways, and the
\* three operands grouped from the left and from the right.
InferMeet ==
    /\ kinds.call = "none"
    /\ kinds' = [kinds EXCEPT !.call = "meet",
                              !.aa = infer_meet(kinds.a, kinds.a),
                              !.ab = infer_meet(kinds.a, kinds.b),
                              !.ba = infer_meet(kinds.b, kinds.a),
                              !.ab_c = infer_meet(infer_meet(kinds.a, kinds.b), kinds.c),
                              !.a_bc = infer_meet(kinds.a, infer_meet(kinds.b, kinds.c))]
    /\ UNCHANGED <<heap, status, stderr, last, calls, written, scopes, cur, arr,
                   rcVars, strVars, lwsVars, program, pc, pass, ctx, prior>>

InferBinaryResult ==
    /\ kinds.call = "none"
    /\ \E op \in BinaryOps :
         kinds' = [kinds EXCEPT !.call = "binary", !.op = op,
                                !.result = infer_binary_result(op, kinds.a, kinds.b)]
    /\ UNCHANGED <<heap, status, stderr, last, calls, written, scopes, cur, arr,
                   rcVars, strVars, lwsVars, program, pc, pass, ctx, prior>>

InitKinds ==
    /\ \E a \in Kinds, b \in Kinds, c \in Kinds :
         kinds = [NoKinds EXCEPT !.a = a, !.b = b, !.c = c]
    /\ program = <<>>
    /\ pc = 0
    /\ pass = 0
    /\ ctx = <<>>
    /\ prior = <<>>
    /\ last = NoCall
    /\ status = "running"
    /\ stderr = <<>>
    /\ calls = 0
    /\ heap = <<>>
    /\ written = <<>>
    /\ scopes = <<>>
    /\ cur = NULL
    /\ arr = NULL
    /\ RcIdle
    /\ StrIdle
    /\ LwsIdle

NextKinds == InferMeet \/ InferBinaryResult

SpecKinds == InitKinds /\ [][NextKinds]_vars

\* -------------------------------------------------------- kind properties
\* The inference lattice: a is more specific than or equal to b.
\* UNKNOWN > NUMERIC > {INTEGER > I32, I64; F64}; the other kinds are atoms
\* below UNKNOWN.
Leq(a, b) ==
    \/ a = b
    \/ b = "UNKNOWN"
    \/ b = "NUMERIC" /\ a \in {"INTEGER", "I32", "I64", "F64"}
    \/ b = "INTEGER" /\ a \in {"I32", "I64"}

IntegerKinds == {"I32", "I64", "INTEGER"}

NumericKinds == {"I32", "I64", "F64", "NUMERIC", "INTEGER"}

\* C16: infer_meet is the least upper bound of the lattice: idempotent,
\* commutative, associative, UNKNOWN absorbing; meet(a, b) is a for equal
\* kinds, INTEGER for two different integer kinds, NUMERIC for two different
\* numeric kinds not both integer, UNKNOWN otherwise.
C16_MeetIsLeastUpperBound ==
    kinds.call = "meet" =>
        /\ kinds.aa = kinds.a
        /\ kinds.ab = kinds.ba
        /\ kinds.ab_c = kinds.a_bc
        /\ (kinds.a = "UNKNOWN" \/ kinds.b = "UNKNOWN") => kinds.ab = "UNKNOWN"
        /\ kinds.ab = IF kinds.a = kinds.b THEN kinds.a
                      ELSE IF kinds.a \in IntegerKinds /\ kinds.b \in IntegerKinds
                      THEN "INTEGER"
                      ELSE IF kinds.a \in NumericKinds /\ kinds.b \in NumericKinds
                      THEN "NUMERIC"
                      ELSE "UNKNOWN"
        /\ Leq(kinds.a, kinds.ab) /\ Leq(kinds.b, kinds.ab)
        /\ \A u \in Kinds : (Leq(kinds.a, u) /\ Leq(kinds.b, u)) => Leq(kinds.ab, u)

\* C16 witness: the meet of I32, F64 and I64: NUMERIC, in both groupings.
C16_Witness ==
    /\ kinds.call = "meet"
    /\ kinds.a = "I32" /\ kinds.b = "F64" /\ kinds.c = "I64"
    /\ kinds.ab = "NUMERIC"
    /\ kinds.ab_c = "NUMERIC"
    /\ kinds.a_bc = "NUMERIC"

NoExpr == [type |-> "NONE"]

Number(is_float, wide) == [type |-> "NUMBER", is_float |-> is_float, wide |-> wide]

Literal(type) == [type |-> type]

Ident(name) == [type |-> "IDENT", name |-> name]

Binary(op, left, right) == [type |-> "BINARY", op |-> op, left |-> left, right |-> right]

Assign(name, value) == [type |-> "ASSIGN", name |-> name, value |-> value]

Ternary(condition, true_expr, false_expr) ==
    [type |-> "TERNARY", condition |-> condition, true_expr |-> true_expr,
     false_expr |-> false_expr]

NullCoalesce(left, right) == [type |-> "NULL_COALESCE", left |-> left, right |-> right]

\* Stmt nodes. type_annotation is "NONE" for a NULL annotation.
Let(name, type_annotation, value) ==
    [type |-> "LET", name |-> name, type_annotation |-> type_annotation, value |-> value]

Const(name, type_annotation, value) ==
    [type |-> "CONST", name |-> name, type_annotation |-> type_annotation, value |-> value]

ExprStmt(expr) == [type |-> "EXPR", expr |-> expr]

Block(statements) == [type |-> "BLOCK", statements |-> statements]

\* type_infer_new: one TypeEnv without bindings, changed = 0. current_env is
\* the chain of TypeEnvs, innermost first; a TypeEnv is its list of bindings,
\* newest first.
type_infer_new == [current_env |-> << <<>> >>, changed |-> 0]

type_env_push(c) == [c EXCEPT !.current_env = << <<>> >> \o c.current_env]

type_env_pop(c) == [c EXCEPT !.current_env = Tail(c.current_env)]

type_env_bind(c, name, type) ==
    [c EXCEPT !.current_env[1] = <<[name |-> name, type |-> type]>> \o c.current_env[1]]

\* The first binding of name in a list of bindings, 0 when there is none.
FirstBinding(bindings, name) ==
    IF \E i \in 1..Len(bindings) : bindings[i].name = name
    THEN CHOOSE i \in 1..Len(bindings) :
             /\ bindings[i].name = name
             /\ \A j \in 1..(i - 1) : bindings[j].name # name
    ELSE 0

\* The innermost TypeEnv on the chain that binds name, 0 when none does.
FirstEnv(c, name) ==
    IF \E e \in 1..Len(c.current_env) : FirstBinding(c.current_env[e], name) # 0
    THEN CHOOSE e \in 1..Len(c.current_env) :
             /\ FirstBinding(c.current_env[e], name) # 0
             /\ \A f \in 1..(e - 1) : FirstBinding(c.current_env[f], name) = 0
    ELSE 0

type_env_lookup(c, name) ==
    LET e == FirstEnv(c, name)
    IN  IF e = 0 THEN "UNKNOWN"
        ELSE c.current_env[e][FirstBinding(c.current_env[e], name)].type

\* Mutant of type_env_refine: the binding takes the meet of the two kinds.
type_env_refine_meet(c, name, type) ==
    LET e == FirstEnv(c, name)
        b == FirstBinding(c.current_env[e], name)
        old == c.current_env[e][b].type
    IN  IF e = 0 \/ infer_meet(old, type) = old THEN c
        ELSE [c EXCEPT !.current_env[e][b].type = infer_meet(old, type),
                       !.changed = 1]

type_env_refine(c, name, type) ==
    LET e == FirstEnv(c, name)
        b == FirstBinding(c.current_env[e], name)
        old == c.current_env[e][b].type
    IN  IF e = 0 THEN c
        ELSE IF old = "UNKNOWN" /\ type # "UNKNOWN"
        THEN [c EXCEPT !.current_env[e][b].type = type, !.changed = 1]
        ELSE IF old = "NUMERIC" /\ infer_is_integer(type)
        THEN [c EXCEPT !.current_env[e][b].type = type, !.changed = 1]
        ELSE IF old = "INTEGER" /\ (type = "I32" \/ type = "I64")
        THEN [c EXCEPT !.current_env[e][b].type = type, !.changed = 1]
        ELSE c

\* ------------------------------------------------ type_infer.c: inference
RECURSIVE infer_expr(_, _)
\* The context after the expression, and its InferredType.
infer_expr(c, expr) ==
    CASE expr.type = "NONE" -> [ctx |-> c, type |-> "UNKNOWN"]
      [] expr.type = "NUMBER" ->
           [ctx |-> c, type |-> IF expr.is_float THEN "F64"
                                ELSE IF ~expr.wide THEN "I32" ELSE "I64"]
      [] expr.type = "BOOL" -> [ctx |-> c, type |-> "BOOL"]
      [] expr.type = "STRING" -> [ctx |-> c, type |-> "STRING"]
      [] expr.type = "NULL" -> [ctx |-> c, type |-> "NULL"]
      [] expr.type = "IDENT" -> [ctx |-> c, type |-> type_env_lookup(c, expr.name)]
      [] expr.type = "BINARY" ->
           LET left == infer_expr(c, expr.left)
               right == infer_expr(left.ctx, expr.right)
           IN  [ctx |-> right.ctx,
                type |-> infer_binary_result(expr.op, left.type, right.type)]
      [] expr.type = "ASSIGN" ->
           LET value == infer_expr(c, expr.value)
           IN  [ctx |-> type_env_refine(value.ctx, expr.name, value.type),
                type |-> value.type]
      [] expr.type = "TERNARY" ->
           LET then_t == infer_expr(c, expr.true_expr)
               else_t == infer_expr(then_t.ctx, expr.false_expr)
           IN  [ctx |-> else_t.ctx, type |-> infer_meet(then_t.type, else_t.type)]
      [] expr.type = "ARRAY_LITERAL" -> [ctx |-> c, type |-> "ARRAY"]
      [] expr.type = "OBJECT_LITERAL" -> [ctx |-> c, type |-> "OBJECT"]
      [] expr.type = "FUNCTION" -> [ctx |-> c, type |-> "FUNCTION"]
      [] expr.type = "INDEX" -> [ctx |-> c, type |-> "UNKNOWN"]
      [] expr.type = "NULL_COALESCE" ->
           LET left == infer_expr(c, expr.left)
               right == infer_expr(left.ctx, expr.right)
           IN  [ctx |-> right.ctx,
                type |-> IF left.type = "NULL" THEN right.type
                         ELSE infer_meet(left.type, right.type)]
      [] OTHER -> [ctx |-> c, type |-> "UNKNOWN"]

\* The switch of STMT_LET, and of STMT_CONST, over the annotation's kind.
Annotated(type_annotation, init_type) ==
    CASE type_annotation = "I32" -> "I32"
      [] type_annotation = "I64" -> "I64"
      [] type_annotation \in {"F32", "F64"} -> "F64"
      [] type_annotation = "BOOL" -> "BOOL"
      [] type_annotation = "STRING" -> "STRING"
      [] OTHER -> init_type

RECURSIVE infer_stmt(_, _)
RECURSIVE infer_block(_, _, _)
\* The statements of a block from index i on, in order.
infer_block(c, statements, i) ==
    IF i > Len(statements) THEN c
    ELSE infer_block(infer_stmt(c, statements[i]), statements, i + 1)

infer_stmt(c, stmt) ==
    CASE stmt.type \in {"LET", "CONST"} ->
           LET init == IF stmt.value.type # "NONE" THEN infer_expr(c, stmt.value)
                       ELSE [ctx |-> c, type |-> "UNKNOWN"]
           IN  type_env_bind(init.ctx, stmt.name,
                             Annotated(stmt.type_annotation, init.type))
      [] stmt.type = "BLOCK" ->
           type_env_pop(infer_block(type_env_push(c), stmt.statements, 1))
      [] stmt.type = "EXPR" -> infer_expr(c, stmt.expr).ctx
      [] OTHER -> c
\* ------------------------------------------------------ inference passes
\* The fixpoint driver: whole-program passes of infer_stmt over the top-level
\* statements with one context, changed cleared before each pass, stopping
\* after the first pass that leaves it 0.
MaxStmts == 3

MaxPasses == 3

\* A pass is at its end once every top-level statement has been inferred.
EndOfPass == pc = Len(program) + 1

\* infer_stmt on the next top-level statement.
InferStmt ==
    /\ pc \in 1..Len(program)
    /\ ctx' = infer_stmt(ctx, program[pc])
    /\ pc' = pc + 1
    /\ UNCHANGED <<heap, status, stderr, last, calls, written, scopes, cur, arr,
                   rcVars, strVars, lwsVars, kinds, program, pass, prior>>

\* The pass changed a binding: another pass, from the first statement, with
\* changed cleared. prior keeps the kinds the pass ended with.
PassAgain ==
    /\ EndOfPass
    /\ ctx.changed = 1
    /\ pass < MaxPasses
    /\ prior' = [name \in Names |-> type_env_lookup(ctx, name)]
    /\ ctx' = [ctx EXCEPT !.changed = 0]
    /\ pass' = pass + 1
    /\ pc' = 1
    /\ UNCHANGED <<heap, status, stderr, last, calls, written, scopes, cur, arr,
                   rcVars, strVars, lwsVars, kinds, program>>

\* The pass left changed at 0: the fixpoint is reached, the driver stops.
PassFixpoint ==
    /\ EndOfPass
    /\ ctx.changed = 0
    /\ pc' = 0
    /\ UNCHANGED <<heap, status, stderr, last, calls, written, scopes, cur, arr,
                   rcVars, strVars, lwsVars, kinds, program, pass, ctx, prior>>

\* The driver before the first pass of program p.
InitPasses(p) ==
    /\ program = p
    /\ pc = 1
    /\ pass = 1
    /\ ctx = type_infer_new
    /\ prior = [name \in Names |-> "UNKNOWN"]
    /\ kinds = <<>>
    /\ last = NoCall
    /\ status = "running"
    /\ stderr = <<>>
    /\ calls = 0
    /\ heap = <<>>
    /\ written = <<>>
    /\ scopes = <<>>
    /\ cur = NULL
    /\ arr = NULL
    /\ RcIdle
    /\ StrIdle
    /\ LwsIdle

NextInfer == InferStmt \/ PassAgain \/ PassFixpoint

\* The top-level statements programs are made of.
StmtPool ==
    {Let("x", "NONE", NoExpr),
     Let("x", "NONE", Number(TRUE, FALSE)),
     ExprStmt(Assign("x", Number(FALSE, FALSE))),
     ExprStmt(Assign("x", Number(TRUE, FALSE))),
     Let("y", "NONE", Binary("ADD", Ident("x"), Number(FALSE, TRUE))),
     ExprStmt(Assign("y", Ident("x"))),
     Block(<<Let("x", "NONE", NoExpr), ExprStmt(Assign("x", Literal("STRING")))>>),
     Block(<<ExprStmt(Assign("x", Literal("BOOL")))>>)}

Programs == UNION {[1..n -> StmtPool] : n \in 1..MaxStmts}

InitInfer == \E p \in Programs : InitPasses(p)

SpecInfer == InitInfer /\ [][NextInfer]_vars

\* An expression of each kind, in a context without bindings.
KindExpr(k) ==
    CASE k = "UNKNOWN" -> Literal("INDEX")
      [] k = "I32" -> Number(FALSE, FALSE)
      [] k = "I64" -> Number(FALSE, TRUE)
      [] k = "F64" -> Number(TRUE, FALSE)
      [] k = "BOOL" -> Literal("BOOL")
      [] k = "STRING" -> Literal("STRING")
      [] k = "NULL" -> Literal("NULL")
      [] k = "ARRAY" -> Literal("ARRAY_LITERAL")
      [] k = "OBJECT" -> Literal("OBJECT_LITERAL")
      [] k = "FUNCTION" -> Literal("FUNCTION")
      [] k = "NUMERIC" -> Binary("MOD", Literal("INDEX"), Literal("INDEX"))
      [] k = "INTEGER" -> Binary("BIT_AND", Literal("INDEX"), Literal("INDEX"))

\* let x = <K>; x = <V>, alone or below an earlier binding of x.
AssignPrograms ==
    {<<Let("x", "NONE", KindExpr(k)), ExprStmt(Assign("x", KindExpr(v)))>> :
        k \in Kinds, v \in Kinds}
    \cup
    {<<Let("x", "NONE", KindExpr("STRING")), Let("x", "NONE", KindExpr(k)),
       ExprStmt(Assign("x", KindExpr(v)))>> : k \in Kinds, v \in Kinds}

InitAssign == \E p \in AssignPrograms : InitPasses(p)

SpecAssign == InitAssign /\ [][NextInfer]_vars

\* ---------------------------------------------------- inference properties
\* The step infers a top-level statement 'name = e'.
InfersAssign ==
    /\ pc \in 1..Len(program)
    /\ program[pc].type = "EXPR"
    /\ program[pc].expr.type = "ASSIGN"
    /\ pc' = pc + 1

\* The kind of the binding of the assigned name before the step, and the
\* kind the assigned expression infers to.
BoundKind == type_env_lookup(ctx, program[pc].expr.name)

ValueKind == infer_expr(ctx, program[pc].expr.value).type

\* C18 (as stated): inferring 'name = e', name bound with kind K and e of
\* kind V, leaves the innermost binding of name with kind meet(K, V).
C18_AssignRefinesByMeet ==
    [][InfersAssign =>
         type_env_lookup(ctx', program[pc].expr.name) = infer_meet(BoundKind, ValueKind)]_vars

\* C18 (amended): inferring 'name = e' leaves the innermost binding of name
\* with kind V when K is UNKNOWN and V is not, when K is NUMERIC and V is
\* INTEGER, I32 or I64, or when K is INTEGER and V is I32 or I64; in every
\* other case the binding keeps kind K. No other binding changes.
C18_AssignRefinesToMoreSpecific ==
    [][InfersAssign =>
         /\ type_env_lookup(ctx', program[pc].expr.name) =
              IF \/ BoundKind = "UNKNOWN" /\ ValueKind # "UNKNOWN"
                 \/ BoundKind = "NUMERIC" /\ ValueKind \in {"INTEGER", "I32", "I64"}
                 \/ BoundKind = "INTEGER" /\ ValueKind \in {"I32", "I64"}
              THEN ValueKind
              ELSE BoundKind
         /\ Len(ctx'.current_env[1]) = Len(ctx.current_env[1])
         /\ \A b \in 2..Len(ctx.current_env[1]) :
                ctx'.current_env[1][b] = ctx.current_env[1][b]]_vars

\* C18 witness: 'x = <I64>' on x bound NUMERIC below an earlier STRING
\* binding has made the newest binding I64 and left the earlier one.
C18_Witness ==
    /\ program = <<Let("x", "NONE", KindExpr("STRING")), Let("x", "NONE", KindExpr("NUMERIC")),
                   ExprStmt(Assign("x", KindExpr("I64")))>>
    /\ pass = 1
    /\ pc = 4
    /\ ctx.current_env = << <<[name |-> "x", type |-> "I64"],
                              [name |-> "x", type |-> "STRING"]>> >>
    /\ ctx.changed = 1

\* The number of bindings of a program: its LET statements, those of its
\* blocks included.
RECURSIVE Bindings(_)
Bindings(statements) ==
    IF statements = <<>> THEN 0
    ELSE LET s == Head(statements)
         IN  (CASE s.type = "LET" -> 1
                [] s.type = "BLOCK" -> Bindings(s.statements)
                [] OTHER -> 0) + Bindings(Tail(statements))

\* The step replaces the kind of the binding of the assigned name.
Replaces == type_env_lookup(ctx', program[pc].expr.name) # BoundKind

\* C19: type monotonicity. At the end of a pass every name's kind is more
\* specific than or equal to its kind at the end of the previous pass; and
\* within a pass type_env_refine only replaces a kind by a strictly more
\* specific one (UNKNOWN -> known, NUMERIC -> INTEGER/I32/I64, INTEGER ->
\* I32/I64), setting changed exactly when it replaces the kind.
C19_TypeMonotonicity ==
    /\ [](EndOfPass => \A name \in Names : Leq(type_env_lookup(ctx, name), prior[name]))
    /\ [][InfersAssign =>
            /\ Replaces =>
                 \/ BoundKind = "UNKNOWN" /\ ValueKind # "UNKNOWN"
                 \/ BoundKind = "NUMERIC" /\ ValueKind \in {"INTEGER", "I32", "I64"}
                 \/ BoundKind = "INTEGER" /\ ValueKind \in {"I32", "I64"}
            /\ ctx'.changed = IF Replaces THEN 1 ELSE ctx.changed]_vars

\* C20: the fixpoint is reached within N passes, N the number of bindings
\* of the program: a pass that ends with changed set, and so is followed by
\* another pass, is one of the first N.
C20_FixpointWithinBindings ==
    (EndOfPass /\ ctx.changed = 1) => pass <= Bindings(program)

\* ------------------------------------------------- annotated declarations
\* The kinds of a type annotation.
TypeKinds == {"I8", "I16", "I32", "I64", "U8", "U16", "U32", "U64", "F32", "F64",
              "BOOL", "STRING", "ARRAY", "OBJECT", "FUNCTION", "PTR"}

\* 'let x: A = <K>' and 'const x: A = <K>', and 'let x: A; x = <K>'.
AnnotPrograms ==
    {<<Let("x", a, KindExpr(k))>> : a \in TypeKinds, k \in Kinds}
    \cup {<<Const("x", a, KindExpr(k))>> : a \in TypeKinds, k \in Kinds}
    \cup {<<Let("x", a, NoExpr), ExprStmt(Assign("x", KindExpr(k)))>> :
             a \in TypeKinds, k \in Kinds}

InitAnnot == \E p \in AnnotPrograms : InitPasses(p)

SpecAnnot == InitAnnot /\ [][NextInfer]_vars

\* The step infers a top-level LET or CONST that carries an annotation and
\* an initializer.
InfersAnnotated ==
    /\ pc \in 1..Len(program)
    /\ program[pc].type \in {"LET", "CONST"}
    /\ program[pc].type_annotation # "NONE"
    /\ program[pc].value # NoExpr
    /\ pc' = pc + 1

\* C21: the kind infer_stmt binds for an annotated LET or CONST depends on
\* the annotation alone: it is the kind bound for the same statement with
\* an initializer of any other kind, for every annotation kind.
C21_AnnotationAlone ==
    [][InfersAnnotated =>
         \A k \in Kinds :
             type_env_lookup(ctx', program[pc].name) =
                 type_env_lookup(infer_stmt(ctx, [program[pc] EXCEPT !.value = KindExpr(k)]),
                                 program[pc].name)]_vars

\* ------------------------------------------------ ternary and coalescing
\* infer_expr on 'c ? a : b', the operands being expressions of the kinds
\* kinds.c, kinds.a and kinds.b.
InferTernary ==
    /\ kinds.call = "none"
    /\ kinds' = [kinds EXCEPT
                   !.call = "ternary",
                   !.result = infer_expr(type_infer_new,
                                         Ternary(KindExpr(kinds.c), KindExpr(kinds.a),
                                                 KindExpr(kinds.b))).type]
    /\ UNCHANGED <<heap, status, stderr, last, calls, written, scopes, cur, arr,
                   rcVars, strVars, lwsVars, program, pc, pass, ctx, prior>>

\* infer_expr on 'a ?? b'.
InferNullCoalesce ==
    /\ kinds.call = "none"
    /\ kinds' = [kinds EXCEPT
                   !.call = "coalesce",
                   !.result = infer_expr(type_infer_new,
                                         NullCoalesce(KindExpr(kinds.a),
                                                      KindExpr(kinds.b))).type]
    /\ UNCHANGED <<heap, status, stderr, last, calls, written, scopes, cur, arr,
                   rcVars, strVars, lwsVars, program, pc, pass, ctx, prior>>

NextArms == InferTernary \/ InferNullCoalesce

SpecArms == InitKinds /\ [][NextArms]_vars

\* The meet of two kinds, from the lattice.
MeetOf(a, b) ==
    IF a = b THEN a
    ELSE IF a \in IntegerKinds /\ b \in IntegerKinds THEN "INTEGER"
    ELSE IF a \in NumericKinds /\ b \in NumericKinds THEN "NUMERIC"
    ELSE "UNKNOWN"

hml_array_reduce_rc(rf, arrv, initial) ==
    LET o == hml_array_reduce(arrv, "combine", initial)
        a == arrv.as_array
        seed == IF a.length = 0 \/ initial.type # "NULL" THEN initial ELSE a.elements[1]
    IN  IF o.exited THEN rf
        ELSE IF o.trace = <<>> THEN hml_retain(rf, seed)
        ELSE hml_release(hml_retain(rf, seed), seed)

\* hml_validate_typed_array: untyped, or an array of Strings.
RcValidateTypedArray ==
    /\ status = "running"
    /\ \E element_type \in {"NULL", "STRING"} :
         RcStore(refs, hml_validate_typed_array(ArrayValue(arr), element_type),
                 [NoRcCall EXCEPT !.op = "validate"])

RcReduce ==
    /\ status = "running" /\ RoomToOwn
    /\ \E initial \in Passable :
         RcTake(hml_array_reduce_rc(refs, ArrayValue(arr), initial),
                hml_array_reduce(ArrayValue(arr), "combine", initial),
                [NoRcCall EXCEPT !.op = "reduce"])

NextFail ==
    \/ RcNewString \/ RcRelease
    \/ RcPush \/ RcUnshift \/ RcInsert \/ RcSet
    \/ RcGet \/ RcRemove
    \/ RcValidateTypedArray \/ RcReduce

SpecFail == InitRc /\ [][NextFail]_vars

\* C23: a runtime array call that fails raises its error before modifying
\* anything: the array (length, elements, element_type) and every reference
\* count are as before the call; and nothing happens after the error.
C23_FailsBeforeModifying ==
    /\ [][status' = "exit1" =>
            /\ status = "running"
            /\ arr' = arr
            /\ refs' = refs
            /\ owned' = owned
            /\ stderr' # <<>>]_vars
    /\ [][status = "exit1" => UNCHANGED vars]_vars

\* C23 witness: a set of null at index 1 of a one-element array of Strings
\* has ended in the type-mismatch error, the array and the counts as before.
C23_Witness ==
    /\ status = "exit1"
    /\ stderr = TypeMismatch
    /\ last.op = "set"
    /\ arr.element_type = "STRING"
    /\ arr.length = 1
    /\ arr.elements[1] = val_string(1)
    /\ refs[1] = 2
    /\ owned[1] = 1

\* ------------------------------------------------------------ slicing
\* The values of the sliced arrays, all different.
SliceVals == {val_i32(1), val_i32(2), val_string(1)}

\* The runtime array made by pushing elems onto a new array.
RECURSIVE hml_array_of(_)
hml_array_of(elems) ==
    IF elems = <<>> THEN hml_val_array
    ELSE hml_array_push(ArrayValue(hml_array_of(SubSeq(elems, 1, Len(elems) - 1))),
                        elems[Len(elems)]).arr

\* No slice made yet.
NoSliceCall == [op |-> "none", start |-> 0, end |-> 0, reads |-> {}]

\* hml_array_slice with start and end from two below 0 to two above the
\* longest array.
HmlArraySlice ==
    /\ status = "running"
    /\ last.op = "none"
    /\ \E start \in -2..(MaxLen + 2), end \in -2..(MaxLen + 2) :
         LET o == hml_array_slice(ArrayValue(arr), start, end)
         IN  /\ arr' = o.arr
             /\ result' = o.ret.as_array
             /\ status' = IF o.exited THEN "exit1" ELSE "running"
             /\ stderr' = o.msg
             /\ last' = [op |-> "slice", start |-> start, end |-> end,
                         reads |-> hml_slice_reads(arr, start, end)]
    /\ UNCHANGED <<heap, calls, written, scopes, cur, refs, owned, strVars, lwsVars, inferVars>>

InitSlice ==
    /\ \E n \in 0..MaxLen : \E elems \in [1..n -> SliceVals] : arr = hml_array_of(elems)
    /\ result = NoResult
    /\ status = "running"
    /\ stderr = <<>>
    /\ last = NoSliceCall
    /\ refs = <<>>
    /\ owned = <<>>
    /\ calls = 0
    /\ heap = <<>>
    /\ written = <<>>
    /\ scopes = <<>>
    /\ cur = NULL
    /\ StrIdle
    /\ InferIdle
    /\ LwsIdle

NextSlice == HmlArraySlice

SpecSlice == InitSlice /\ [][NextSlice]_vars

\* C24: hml_array_slice(arr, s, e) returns a new array with exactly the
\* elements of arr at the indexes in [max(s, 0), min(e, length)), in order,
\* empty when that range is empty; no index outside 0..length-1 of arr is
\* read; arr is unchanged.
C24_SliceClamped ==
    [][last'.op = "slice" =>
         LET lo == IF last'.start > 0 THEN last'.start ELSE 0
             hi == IF last'.end < arr.length THEN last'.end ELSE arr.length
             n == IF hi > lo THEN hi - lo ELSE 0
         IN  /\ status' = "running"
             /\ result'.kind = "HmlArray"
             /\ result'.length = n
             /\ result'.elements = [k \in 1..n |-> arr.elements[lo + k]]
             /\ (\/ last'.end <= last'.start
                 \/ last'.end <= 0
                 \/ last'.start >= arr.length) => result'.elements = <<>>
             /\ last'.reads \subseteq 0..(arr.length - 1)
             /\ last'.reads = {i \in 0..(arr.length - 1) : lo <= i /\ i < hi}
             /\ arr' = arr
      ]_vars

\* C24 witness: the slice from -2 to the length plus one of a three-element
\* array is its copy; indexes 0, 1 and 2 were read.
C24_Witness ==
    /\ last.op = "slice"
    /\ last.start = -2
    /\ last.end = 4
    /\ arr.elements = <<val_i32(1), val_string(1), val_i32(2)>>
    /\ result.elements = arr.elements
    /\ last.reads = {0, 1, 2}

\* ----------------------------------------------------- insert and remove
\* The last call: operation, index, value, what it returned, and the elements
\* of the array before it.
NoEditCall == [op |-> "none", idx |-> 0, val |-> val_null, ret |-> val_null,
               before |-> <<>>]

\* What an insert, remove or validate call leaves behind.
Edit(o, call) ==
    /\ arr' = o.arr
    /\ status' = IF o.exited THEN "exit1" ELSE "running"
    /\ stderr' = o.msg
    /\ last' = [call EXCEPT !.ret = o.ret, !.before = arr.elements]
    /\ UNCHANGED <<heap, calls, written, scopes, cur, addedVars>>

EditInsert ==
    /\ status = "running"
    /\ arr.length < MaxLen
    /\ \E idx \in Indexes, val \in SliceVals :
         Edit(hml_array_insert(ArrayValue(arr), idx, val),
              [NoEditCall EXCEPT !.op = "insert", !.idx = idx, !.val = val])

EditRemove ==
    /\ status = "running"
    /\ \E idx \in Indexes :
         Edit(hml_array_remove(ArrayValue(arr), idx),
              [NoEditCall EXCEPT !.op = "remove", !.idx = idx])

\* hml_validate_typed_array; the array it returns is the array itself.
EditValidateTypedArray ==
    /\ status = "running"
    /\ \E element_type \in ElemTypes :
         Edit([hml_validate_typed_array(ArrayValue(arr), element_type)
                  EXCEPT !.ret = val_null],
              [NoEditCall EXCEPT !.op = "validate"])

InitEdit ==
    /\ arr = hml_val_array
    /\ status = "running"
    /\ stderr = <<>>
    /\ last = NoEditCall
    /\ calls = 0
    /\ heap = <<>>
    /\ written = <<>>
    /\ scopes = <<>>
    /\ cur = NULL
    /\ AddedIdle

NextEdit == EditInsert \/ EditRemove \/ EditValidateTypedArray

SpecEdit == InitEdit /\ [][NextEdit]_vars

\* elems with val put at 0-based index i, the elements from i on one place
\* to the right.
InsertedAt(elems, i, val) ==
    [k \in 1..(Len(elems) + 1) |->
        IF k <= i THEN elems[k] ELSE IF k = i + 1 THEN val ELSE elems[k - 1]]

\* elems without the element at 0-based index i, the later ones one place
\* to the left.
RemovedAt(elems, i) ==
    [k \in 1..(Len(elems) - 1) |-> IF k <= i THEN elems[k] ELSE elems[k + 1]]

\* The call made by the step is an insert that must succeed: the index lies
\* within 0..length.
InsertInRange == 0 <= last'.idx /\ last'.idx <= arr.length

\* What a successful insert, any remove, and a remove directly after a
\* successful insert at the same index do.
InsertRemoveContract(insertSucceeds) ==
    /\ last'.op = "insert" =>
         IF insertSucceeds
         THEN /\ status' = "running"
              /\ arr'.length = arr.length + 1
              /\ arr'.elements = InsertedAt(arr.elements, last'.idx, last'.val)
         ELSE status' = "exit1" /\ arr' = arr
    /\ last'.op = "remove" =>
         IF 0 <= last'.idx /\ last'.idx < arr.length
         THEN /\ status' = "running"
              /\ last'.ret = arr.elements[last'.idx + 1]
              /\ arr'.length = arr.length - 1
              /\ arr'.elements = RemovedAt(arr.elements, last'.idx)
         ELSE status' = "exit1" /\ arr' = arr
    /\ (last.op = "insert" /\ last'.op = "remove" /\ last'.idx = last.idx) =>
         /\ status' = "running"
         /\ last'.ret = last.val
         /\ arr'.length = Len(last.before)
         /\ arr'.elements = last.before

\* C25 (as stated): hml_array_insert(arr, i, v) succeeds exactly when
\* 0 <= i <= length, placing v at index i and moving the former elements
\* i..length-1 one place right; hml_array_remove(arr, i) succeeds exactly
\* when 0 <= i < length, returning element i and moving the later elements
\* one place left; remove(i) directly after a successful insert(i, v)
\* returns v and restores the previous length and elements.
C25_InsertRemoveInverse == [][InsertRemoveContract(InsertInRange)]_vars

\* C25 (amended): as stated, but an insert into a typed array of a value of
\* another type fails for every index.
C25_InsertRemoveInverseUnlessMismatch ==
    [][InsertRemoveContract(/\ InsertInRange
                            /\ ~(Typed(arr) /\ last'.val.type # arr.element_type))]_vars

\* C25 witness: a remove at index 1 directly after the insert of a string
\* at index 1 between two i32 has returned the string and left the two.
C25_Witness ==
    /\ status = "running"
    /\ last.op = "remove"
    /\ last.idx = 1
    /\ last.ret = val_string(1)
    /\ last.before = <<val_i32(1), val_string(1), val_i32(2)>>
    /\ arr.elements = <<val_i32(1), val_i32(2)>>

\* --------------------------------------------------- re-entrant callbacks
\* The last higher-order call: the operation, the callback, and the reads of
\* the iterated array's elements it made.
NoLoopCall == [op |-> "none", fn |-> "", reads |-> <<>>]

\* What map, filter or reduce leaves behind: the iterated array as the
\* callback left it, and the array or value returned.
Loop(o, call) ==
    /\ arr' = o.arr
    /\ result' = IF o.ret.type = "ARRAY" THEN o.ret.as_array ELSE NoResult
    /\ status' = IF o.exited THEN "exit1" ELSE "running"
    /\ stderr' = o.msg
    /\ last' = [call EXCEPT !.reads = o.reads]
    /\ UNCHANGED <<heap, calls, written, scopes, cur, refs, owned, strVars, lwsVars, inferVars>>

LoopMap ==
    /\ status = "running" /\ last.op = "none"
    /\ \E fn \in Callbacks :
         Loop(hml_array_map(ArrayValue(arr), fn), [NoLoopCall EXCEPT !.op = "map", !.fn = fn])

LoopFilter ==
    /\ status = "running" /\ last.op = "none"
    /\ \E fn \in Callbacks :
         Loop(hml_array_filter(ArrayValue(arr), fn),
              [NoLoopCall EXCEPT !.op = "filter", !.fn = fn])

LoopReduce ==
    /\ status = "running" /\ last.op = "none"
    /\ \E fn \in Callbacks, initial \in {val_null, val_i32(1)} :
         Loop(hml_array_reduce(ArrayValue(arr), fn, initial),
              [NoLoopCall EXCEPT !.op = "reduce", !.fn = fn])

InitLoop ==
    /\ \E n \in 0..MaxLen : \E elems \in [1..n -> SliceVals] : arr = hml_array_of(elems)
    /\ result = NoResult
    /\ status = "running"
    /\ stderr = <<>>
    /\ last = NoLoopCall
    /\ refs = <<>>
    /\ owned = <<>>
    /\ calls = 0
    /\ heap = <<>>
    /\ written = <<>>
    /\ scopes = <<>>
    /\ cur = NULL
    /\ StrIdle
    /\ InferIdle
    /\ LwsIdle

NextLoop == LoopMap \/ LoopFilter \/ LoopReduce

SpecLoop == InitLoop /\ [][NextLoop]_vars

\* C26: re-entrant callbacks are bounds-safe. Whatever the callback of map,
\* filter or reduce does to the iterated array, every read of an element is
\* at an index below the array's length at the time of the read.
C26_ReentrantBoundsSafe ==
    last.op \in {"map", "filter", "reduce"} =>
        \A k \in 1..Len(last.reads) :
            0 <= last.reads[k].idx /\ last.reads[k].idx < last.reads[k].length

\* ------------------------------------------------ run-time coercion policy
\* The kind of the run-time result of ADD, SUB, MUL and MOD under the
\* coercion policy: ADD with a string operand concatenates; otherwise the
\* operands widen to F64 if either is F64, else to I64 if either is I64,
\* else the result is I32.
coerce_binary(op, left, right) ==
    IF op = "ADD" /\ (left = "STRING" \/ right = "STRING") THEN "STRING"
    ELSE IF left = "F64" \/ right = "F64" THEN "F64"
    ELSE IF left = "I64" \/ right = "I64" THEN "I64"
    ELSE "I32"

\* The operand kinds the policy is stated for.
Coercible(op, k) == k \in {"I32", "I64", "F64"} \/ (op = "ADD" /\ k = "STRING")

\* A BINARY expression inferred by infer_binary_result and evaluated under
\* the coercion policy.
InferAndEvaluate ==
    /\ kinds.call = "none"
    /\ \E op \in {"ADD", "SUB", "MUL", "MOD"} :
         /\ Coercible(op, kinds.a)
         /\ Coercible(op, kinds.b)
         /\ kinds' = [call |-> "evaluate", a |-> kinds.a, b |-> kinds.b, op |-> op,
                      inferred |-> infer_binary_result(op, kinds.a, kinds.b),
                      evaluated |-> coerce_binary(op, kinds.a, kinds.b)]
    /\ UNCHANGED <<heap, status, stderr, last, calls, written, scopes, cur, arr,
                   rcVars, strVars, lwsVars, program, pc, pass, ctx, prior>>

NextCoerce == InferAndEvaluate

SpecCoerce == InitKinds /\ [][NextCoerce]_vars

\* C27: for ADD, SUB, MUL and MOD on operands of kind I32, I64 or F64 (or
\* STRING, for ADD), the kind infer_binary_result returns is the kind of the
\* run-time result under the coercion policy.
C27_InferAgreesWithCoercion ==
    kinds.call = "evaluate" => kinds.inferred = kinds.evaluated

\* ------------------------------------------------------- lws_wrapper.c
\* Most callbacks one library call delivers to http_callback.
MaxCallbacks == 2

\* Most body bytes the server sends.
MaxBody == 3

\* The capacities lws_http_get and lws_ws_connect allocate.
BodyCapacity == 4096

HeadersCapacity == 1024

RecvCapacity == 4096

\* URLs, as their characters.
Urls ==
    { <<"h", "t", "t", "p", ":", "/", "/", "a">>,
      <<"h", "t", "t", "p", "s", ":", "/", "/", "a">>,
      <<"h", "t", "t", "p", ":", "/", "a">>,
      <<"h", "t", "t", "p", "s", ":", "/">>,
      <<"w", "s", ":", "/", "/", "a">>,
      <<"w", "s", "s", ":", "/", "/", "a">>,
      <<"w", "s", ":", "/", "a">>,
      <<>> }

\* strncmp(s1, s2, n): 0 when the first n characters agree, the comparison
\* ending at the terminator of both.
strncmp(s1, s2, n) ==
    IF \A i \in 1..n : \/ i > Len(s1) /\ i > Len(s2)
                       \/ i <= Len(s1) /\ i <= Len(s2) /\ s1[i] = s2[i]
    THEN 0 ELSE 1

\* The callback reasons; "OTHER" is any reason the switch leaves to default.
HttpReasons ==
    {"CLIENT_ESTABLISHED", "CLIENT_CONNECTION_ERROR", "ESTABLISHED_CLIENT_HTTP",
     "RECEIVE_CLIENT_HTTP_READ", "COMPLETED_CLIENT_HTTP", "CLOSED_CLIENT_HTTP",
     "OTHER"}

\* A callback: its reason, the len of its data and, for
\* ESTABLISHED_CLIENT_HTTP, what lws_http_client_http_response returns.
Callback(reason, len, code) == [reason |-> reason, len |-> len, code |-> code]

\* Mutant of http_callback: a connection error only completes the response.
http_callback_error_completes(r, cb) ==
    CASE cb.reason = "CLIENT_CONNECTION_ERROR" -> [r EXCEPT !.complete = 1]
      [] cb.reason = "ESTABLISHED_CLIENT_HTTP" -> [r EXCEPT !.status_code = cb.code]
      [] cb.reason \in {"COMPLETED_CLIENT_HTTP", "CLOSED_CLIENT_HTTP"} ->
            [r EXCEPT !.complete = 1]
      [] OTHER -> r

\* http_callback(wsi, reason, user, in, len) on the response r = user.
http_callback(r, cb) ==
    CASE cb.reason = "CLIENT_CONNECTION_ERROR" ->
            [r EXCEPT !.failed = 1, !.complete = 1]
      [] cb.reason = "ESTABLISHED_CLIENT_HTTP" ->
            [r EXCEPT !.status_code = cb.code]
      [] cb.reason = "RECEIVE_CLIENT_HTTP_READ" ->
            LET grown == IF r.body_len + cb.len >= r.body_capacity
                         THEN (r.body_len + cb.len + 1) * 2
                         ELSE r.body_capacity
            IN  [r EXCEPT !.body_capacity = grown, !.body_len = r.body_len + cb.len]
      [] cb.reason \in {"COMPLETED_CLIENT_HTTP", "CLOSED_CLIENT_HTTP"} ->
            [r EXCEPT !.complete = 1]
      [] OTHER -> r

\* The callbacks, in order, on the response.
RECURSIVE http_callbacks(_, _)
http_callbacks(r, cbs) ==
    IF cbs = <<>> THEN r ELSE http_callbacks(http_callback(r, Head(cbs)), Tail(cbs))

\* The library's client connection: connecting until it is established or
\* fails, then established until the response completes or the connection
\* closes, gone afterwards; sent counts the body bytes delivered.
Wsi(state, sent) == [state |-> state, sent |-> sent]

\* The callbacks libwebsockets may deliver next for an HTTP client connection:
\* CLIENT_CONNECTION_ERROR only before the connection is established,
\* the HTTP callbacks only after it.
HttpDeliverable(w) ==
    {Callback("OTHER", 0, 0)} \cup
    CASE w.state = "connecting" ->
            {Callback("CLIENT_CONNECTION_ERROR", 0, 0)} \cup
            {Callback("ESTABLISHED_CLIENT_HTTP", 0, c) : c \in {200, 301, 404}}
      [] w.state = "established" ->
            {Callback("RECEIVE_CLIENT_HTTP_READ", n, 0) : n \in 1..(MaxBody - w.sent)} \cup
            {Callback("COMPLETED_CLIENT_HTTP", 0, 0), Callback("CLOSED_CLIENT_HTTP", 0, 0)}
      [] w.state = "completed" -> {Callback("CLOSED_CLIENT_HTTP", 0, 0)}
      [] OTHER -> {}

\* The connection after a callback was delivered.
WsiAfter(w, cb) ==
    CASE cb.reason \in {"CLIENT_CONNECTION_ERROR", "CLOSED_CLIENT_HTTP", "CLOSED"} ->
            Wsi("gone", w.sent)
      [] cb.reason \in {"ESTABLISHED_CLIENT_HTTP", "CLIENT_ESTABLISHED"} ->
            Wsi("established", w.sent)
      [] cb.reason = "COMPLETED_CLIENT_HTTP" -> Wsi("completed", w.sent)
      [] cb.reason \in {"RECEIVE_CLIENT_HTTP_READ", "CLIENT_RECEIVE"} ->
            Wsi(w.state, w.sent + cb.len)
      [] OTHER -> w

RECURSIVE WsiAfterAll(_, _)
WsiAfterAll(w, cbs) ==
    IF cbs = <<>> THEN w ELSE WsiAfterAll(WsiAfter(w, Head(cbs)), Tail(cbs))

\* The runs of at most n callbacks one library call may deliver.
RECURSIVE HttpRuns(_, _)
HttpRuns(w, n) ==
    {<<>>} \cup
    IF n = 0 THEN {}
    ELSE UNION {{<<cb>> \o rest : rest \in HttpRuns(WsiAfter(w, cb), n - 1)} :
                cb \in HttpDeliverable(w)}

\* What lws_context_destroy delivers: the close of a connection still open.
HttpDestroyRun(w) ==
    CASE w.state = "connecting" -> <<Callback("CLIENT_CONNECTION_ERROR", 0, 0)>>
      [] w.state \in {"established", "completed"} -> <<Callback("CLOSED_CLIENT_HTTP", 0, 0)>>
      [] OTHER -> <<>>

\* The reasons of a run.
Reasons(cbs) == {cbs[i].reason : i \in 1..Len(cbs)}

\* free(resp->body); free(resp->headers); free(resp).
FreeResp(r) == [r EXCEPT !.freed = TRUE]

\* The lws_context, created and not destroyed, serving connection w.
Context(alive, w) == [alive |-> alive, wsi |-> w]

\* The running lws_http_get: its url and position, what it returned, and the
\* history of the call: whether lws_create_context and the connect call
\* succeeded, whether the event loop was reached, resp->complete and
\* resp->failed when the loop ended, and whether a callback of the kind was
\* delivered before the loop ended.
HttpCall(url, at, ret, ctx_ok, wsi_ok, entered) ==
    [fn |-> "lws_http_get", url |-> url, at |-> at, ret |-> ret,
     ssl |-> IF url # <<>> /\ strncmp(url, <<"h", "t", "t", "p", "s", ":", "/", "/">>, 8) = 0
             THEN 1 ELSE 0,
     ctx_ok |-> ctx_ok, wsi_ok |-> wsi_ok, entered |-> entered,
     complete_at_exit |-> 0, failed_at_exit |-> 0, cce |-> FALSE, done |-> FALSE]

\* The delivery of a run recorded in the history of the call.
Delivered(call, cbs) ==
    [call EXCEPT !.cce = @ \/ "CLIENT_CONNECTION_ERROR" \in Reasons(cbs),
                 !.done = @ \/ Reasons(cbs) \cap {"COMPLETED_CLIENT_HTTP", "CLOSED_CLIENT_HTTP"} # {}]

\* lws_http_get(url) up to its event loop: the allocation, the URL scheme,
\* lws_create_context and lws_client_connect_via_info, either of which may
\* fail; the connect call may deliver callbacks before it returns.
LwsHttpGet ==
    /\ lws = <<>>
    /\ \E url \in Urls, ctx_ok \in BOOLEAN, wsi_ok \in BOOLEAN :
         LET r == [body_len |-> 0, body_capacity |-> BodyCapacity,
                   headers_len |-> 0, headers_capacity |-> HeadersCapacity,
                   status_code |-> 0, complete |-> 0, failed |-> 0, freed |-> FALSE]
             https == strncmp(url, <<"h", "t", "t", "p", "s", ":", "/", "/">>, 8) = 0
             http == strncmp(url, <<"h", "t", "t", "p", ":", "/", "/">>, 7) = 0
         IN  IF ~https /\ ~http
             THEN /\ ctx_ok /\ wsi_ok
                  /\ resp' = FreeResp(r)
                  /\ context' = <<>>
                  /\ lws' = HttpCall(url, "returned", "NULL", FALSE, FALSE, FALSE)
             ELSE IF ~ctx_ok
             THEN /\ wsi_ok
                  /\ resp' = FreeResp(r)
                  /\ context' = <<>>
                  /\ lws' = HttpCall(url, "returned", "NULL", FALSE, FALSE, FALSE)
             ELSE IF ~wsi_ok
             THEN \E cbs \in {<<>>, <<Callback("CLIENT_CONNECTION_ERROR", 0, 0)>>} :
                    /\ resp' = FreeResp(http_callbacks(r, cbs))
                    /\ context' = Context(FALSE, Wsi("gone", 0))
                    /\ lws' = HttpCall(url, "returned", "NULL", TRUE, FALSE, FALSE)
             ELSE \E cbs \in HttpRuns(Wsi("connecting", 0), MaxCallbacks) :
                    /\ resp' = http_callbacks(r, cbs)
                    /\ context' = Context(TRUE, WsiAfterAll(Wsi("connecting", 0), cbs))
                    /\ lws' = Delivered(HttpCall(url, "loop", "none", TRUE, TRUE, TRUE), cbs)
    /\ UNCHANGED <<heap, status, stderr, last, calls, written, scopes, cur, arr,
                   rcVars, strVars, inferVars, conn>>

\* One turn of the event loop: lws_service delivers what has happened.
LwsHttpService ==
    /\ lws # <<>> /\ lws.fn = "lws_http_get" /\ lws.at = "loop"
    /\ resp.complete = 0 /\ resp.failed = 0
    /\ \E cbs \in HttpRuns(context.wsi, MaxCallbacks) :
         /\ resp' = http_callbacks(resp, cbs)
         /\ context' = Context(TRUE, WsiAfterAll(context.wsi, cbs))
         /\ lws' = Delivered(lws, cbs)
    /\ UNCHANGED <<heap, status, stderr, last, calls, written, scopes, cur, arr,
                   rcVars, strVars, inferVars, conn>>

\* The end of the event loop: lws_context_destroy, then NULL for a failed
\* response, freed, and the response otherwise.
LwsHttpReturn ==
    /\ lws # <<>> /\ lws.fn = "lws_http_get" /\ lws.at = "loop"
    /\ ~(resp.complete = 0 /\ resp.failed = 0)
    /\ LET r == http_callbacks(resp, HttpDestroyRun(context.wsi))
       IN  /\ resp' = IF r.failed # 0 THEN FreeResp(r) ELSE r
           /\ lws' = [lws EXCEPT !.at = "returned",
                                 !.ret = IF r.failed # 0 THEN "NULL" ELSE "resp",
                                 !.complete_at_exit = resp.complete,
                                 !.failed_at_exit = resp.failed]
    /\ context' = Context(FALSE, Wsi("gone", context.wsi.sent))
    /\ UNCHANGED <<heap, status, stderr, last, calls, written, scopes, cur, arr,
                   rcVars, strVars, inferVars, conn>>

InitHttp ==
    /\ heap = <<>>
    /\ status = "running"
    /\ stderr = <<>>
    /\ last = NoCall
    /\ calls = 0
    /\ written = <<>>
    /\ scopes = <<>>
    /\ cur = NULL
    /\ arr = <<>>
    /\ AddedIdle

NextHttp == LwsHttpGet \/ LwsHttpService \/ LwsHttpReturn

SpecHttp == InitHttp /\ [][NextHttp]_vars

\* The URL begins with the prefix.
StartsWith(url, prefix) ==
    Len(url) >= Len(prefix) /\ SubSeq(url, 1, Len(prefix)) = prefix

HttpScheme(url) ==
    \/ StartsWith(url, <<"h", "t", "t", "p", ":", "/", "/">>)
    \/ StartsWith(url, <<"h", "t", "t", "p", "s", ":", "/", "/">>)

\* C28: lws_http_get returns a response exactly when its event loop ended
\* with failed = 0, which is when a COMPLETED_CLIENT_HTTP or CLOSED_CLIENT_HTTP
\* callback and no CLIENT_CONNECTION_ERROR callback was delivered before the
\* loop ended; for a URL that is neither http:// nor https://, and when the
\* context creation or the connect call fails, it returns NULL without
\* reaching the loop; whenever it returns NULL the response is freed; and the
\* loop ends only with complete or failed set.
C28_HttpGetResult ==
    (lws # <<>> /\ lws.fn = "lws_http_get" /\ lws.at = "returned") =>
        /\ lws.ret # "NULL" <=> (lws.entered /\ lws.failed_at_exit = 0)
        /\ lws.entered => (lws.failed_at_exit = 0 <=> (lws.done /\ ~lws.cce))
        /\ lws.entered => (lws.complete_at_exit # 0 \/ lws.failed_at_exit # 0)
        /\ (~HttpScheme(lws.url) \/ ~lws.ctx_ok \/ ~lws.wsi_ok) =>
               (lws.ret = "NULL" /\ ~lws.entered)
        /\ lws.entered <=> (HttpScheme(lws.url) /\ lws.ctx_ok /\ lws.wsi_ok)
        /\ lws.ret = "NULL" <=> resp.freed

\* lws_http_get returned a response after its loop ran, and returned NULL
\* after a connection error was delivered in the loop.
C28_Witness ==
    /\ lws # <<>> /\ lws.fn = "lws_http_get" /\ lws.at = "returned"
    /\ lws.ret = "resp" /\ lws.done /\ resp.body_len = MaxBody /\ resp.status_code = 200

\* ------------------------------------------------ lws_wrapper.c, WebSocket
\* Most callbacks one library call delivers to ws_callback.
MaxWsCallbacks == 1

\* int timeout = 100 of lws_ws_connect.
ConnectTimeout == 100

\* A WebSocket callback: its reason, the len of its data and, for
\* CLIENT_RECEIVE, whether lws_is_final_fragment and lws_frame_is_binary hold.
WsCallback(reason, len, final, binary) ==
    [reason |-> reason, len |-> len, final |-> final, binary |-> binary]

\* ws_callback(wsi, reason, user, in, len) on the connection c = user.
ws_callback(c, cb) ==
    CASE cb.reason = "CLIENT_RECEIVE" ->
            LET grown == IF c.recv_len + cb.len >= c.recv_capacity
                         THEN (c.recv_len + cb.len + 1) * 2
                         ELSE c.recv_capacity
            IN  [c EXCEPT !.recv_capacity = grown,
                          !.recv_len = c.recv_len + cb.len,
                          !.message_type = IF cb.final
                                           THEN (IF cb.binary THEN 2 ELSE 1)
                                           ELSE @]
      [] cb.reason = "CLOSED" -> [c EXCEPT !.closed = 1]
      [] cb.reason = "CLIENT_CONNECTION_ERROR" -> [c EXCEPT !.failed = 1, !.closed = 1]
      [] OTHER -> c

\* The callbacks, in order, on the connection.
RECURSIVE ws_callbacks(_, _)
ws_callbacks(c, cbs) ==
    IF cbs = <<>> THEN c ELSE ws_callbacks(ws_callback(c, Head(cbs)), Tail(cbs))

\* The callbacks libwebsockets may deliver next for a WebSocket client
\* connection: CLIENT_CONNECTION_ERROR and CLIENT_ESTABLISHED only while it is
\* connecting, frames and CLOSED only once it is established.
WsDeliverable(w) ==
    {WsCallback("OTHER", 0, FALSE, FALSE)} \cup
    CASE w.state = "connecting" ->
            {WsCallback("CLIENT_CONNECTION_ERROR", 0, FALSE, FALSE),
             WsCallback("CLIENT_ESTABLISHED", 0, FALSE, FALSE)}
      [] w.state = "established" ->
            {WsCallback("CLIENT_RECEIVE", 1, f, b) :
                f \in IF w.sent < MaxBody THEN BOOLEAN ELSE {}, b \in BOOLEAN} \cup
            {WsCallback("CLIENT_WRITEABLE", 0, FALSE, FALSE),
             WsCallback("CLOSED", 0, FALSE, FALSE)}
      [] OTHER -> {}

\* The runs of at most n callbacks one library call may deliver.
RECURSIVE WsRuns(_, _)
WsRuns(w, n) ==
    {<<>>} \cup
    IF n = 0 THEN {}
    ELSE UNION {{<<cb>> \o rest : rest \in WsRuns(WsiAfter(w, cb), n - 1)} :
                cb \in WsDeliverable(w)}

\* What lws_context_destroy delivers: the close of a connection still open.
WsDestroyRun(w) ==
    CASE w.state = "connecting" -> <<WsCallback("CLIENT_CONNECTION_ERROR", 0, FALSE, FALSE)>>
      [] w.state = "established" -> <<WsCallback("CLOSED", 0, FALSE, FALSE)>>
      [] OTHER -> <<>>

\* free(conn->recv_buffer); free(conn).
FreeConn(c) == [c EXCEPT !.freed = TRUE]

\* Mutant of ws_waiting: the wait has no timeout.
ws_waiting_forever(timeout, c) == c.closed = 0 /\ c.failed = 0

\* The condition of the wait loop, on the value timeout has before its
\* decrement.
ws_waiting(timeout, c) == timeout > 0 /\ c.closed = 0 /\ c.failed = 0

\* The running lws_ws_connect: its url, position and timeout, what it
\* returned, and the history of the call: whether lws_create_context and the
\* connect call succeeded, the lws_service calls of the wait loop, conn->closed
\* and conn->failed when the loop ended, and whether a callback of the kind
\* was delivered before the loop ended. After it returned, the operation last
\* called on the connection: its argument, its result, conn->closed at its
\* start, and whether it called lws_write and lws_service.
WsCall(url, at, ret, ctx_ok, wsi_ok) ==
    [fn |-> "lws_ws_connect", url |-> url, at |-> at, ret |-> ret,
     ssl |-> IF strncmp(url, <<"w", "s", "s", ":", "/", "/">>, 6) = 0 THEN 1 ELSE 0,
     ctx_ok |-> ctx_ok, wsi_ok |-> wsi_ok,
     timeout |-> ConnectTimeout, services |-> 0,
     closed_at_exit |-> 0, failed_at_exit |-> 0, cce |-> FALSE, established |-> FALSE,
     op |-> "none", arg |-> "none", res |-> 0, closed_before |-> 0,
     wrote |-> FALSE, serviced |-> FALSE]

\* The delivery of a run recorded in the history of the call.
WsDelivered(call, cbs) ==
    [call EXCEPT !.cce = @ \/ "CLIENT_CONNECTION_ERROR" \in Reasons(cbs),
                 !.established = @ \/ "CLIENT_ESTABLISHED" \in Reasons(cbs)]

\* lws_ws_connect(url) up to its wait loop: the allocation, the URL scheme,
\* lws_create_context and lws_client_connect_via_info, either of which may
\* fail; the connect call may deliver callbacks before it returns.
LwsWsConnect ==
    /\ lws = <<>>
    /\ \E url \in Urls, ctx_ok \in BOOLEAN, wsi_ok \in BOOLEAN :
         LET c == [recv_len |-> 0, recv_capacity |-> RecvCapacity, message_type |-> 0,
                   closed |-> 0, failed |-> 0, freed |-> FALSE]
             wss == strncmp(url, <<"w", "s", "s", ":", "/", "/">>, 6) = 0
             ws == strncmp(url, <<"w", "s", ":", "/", "/">>, 5) = 0
         IN  IF ~wss /\ ~ws
             THEN /\ ctx_ok /\ wsi_ok
                  /\ conn' = FreeConn(c)
                  /\ context' = <<>>
                  /\ lws' = WsCall(url, "returned", "NULL", FALSE, FALSE)
             ELSE IF ~ctx_ok
             THEN /\ wsi_ok
                  /\ conn' = FreeConn(c)
                  /\ context' = <<>>
                  /\ lws' = WsCall(url, "returned", "NULL", FALSE, FALSE)
             ELSE IF ~wsi_ok
             THEN \E cbs \in {<<>>, <<WsCallback("CLIENT_CONNECTION_ERROR", 0, FALSE, FALSE)>>} :
                    /\ conn' = FreeConn(ws_callbacks(c, cbs))
                    /\ context' = Context(FALSE, Wsi("gone", 0))
                    /\ lws' = WsDelivered(WsCall(url, "returned", "NULL", TRUE, FALSE), cbs)
             ELSE \E cbs \in WsRuns(Wsi("connecting", 0), MaxWsCallbacks) :
                    /\ conn' = ws_callbacks(c, cbs)
                    /\ context' = Context(TRUE, WsiAfterAll(Wsi("connecting", 0), cbs))
                    /\ lws' = WsDelivered(WsCall(url, "wait", "none", TRUE, TRUE), cbs)
    /\ UNCHANGED <<heap, status, stderr, last, calls, written, scopes, cur, arr,
                   rcVars, strVars, inferVars, resp>>

\* One turn of the wait loop: the condition holds, timeout is decremented and
\* lws_service delivers what has happened.
LwsWsWait ==
    /\ lws # <<>> /\ lws.fn = "lws_ws_connect" /\ lws.at = "wait"
    /\ ws_waiting(lws.timeout, conn)
    /\ \E cbs \in WsRuns(context.wsi, MaxWsCallbacks) :
         /\ conn' = ws_callbacks(conn, cbs)
         /\ context' = Context(TRUE, WsiAfterAll(context.wsi, cbs))
         /\ lws' = [WsDelivered(lws, cbs) EXCEPT !.timeout = lws.timeout - 1,
                                                 !.services = lws.services + 1]
    /\ UNCHANGED <<heap, status, stderr, last, calls, written, scopes, cur, arr,
                   rcVars, strVars, inferVars, resp>>

\* The end of the wait loop: for a failed connection lws_context_destroy, the
\* frees and NULL; the connection otherwise.
LwsWsConnectReturn ==
    /\ lws # <<>> /\ lws.fn = "lws_ws_connect" /\ lws.at = "wait"
    /\ ~ws_waiting(lws.timeout, conn)
    /\ IF conn.failed # 0
       THEN /\ conn' = FreeConn(ws_callbacks(conn, WsDestroyRun(context.wsi)))
            /\ context' = Context(FALSE, Wsi("gone", context.wsi.sent))
       ELSE UNCHANGED <<conn, context>>
    /\ lws' = [lws EXCEPT !.at = "returned",
                          !.ret = IF conn.failed # 0 THEN "NULL" ELSE "conn",
                          !.timeout = lws.timeout - 1,
                          !.closed_at_exit = conn.closed,
                          !.failed_at_exit = conn.failed]
    /\ UNCHANGED <<heap, status, stderr, last, calls, written, scopes, cur, arr,
                   rcVars, strVars, inferVars, resp>>

\* The connection lws_ws_connect returned is held and not yet passed to
\* lws_ws_close.
ConnHeld == lws # <<>> /\ lws.at = "returned" /\ lws.ret = "conn" /\ ~conn.freed

\* The arguments a caller passes for the connection after lws_ws_connect
\* returned: what it returned while held, or NULL.
ConnArgs == IF ConnHeld THEN {"conn", "NULL"} ELSE {"NULL"}

\* The operation recorded as the last one called.
WsOp(fn, arg, res, closed_before, wrote, serviced) ==
    [lws EXCEPT !.op = fn, !.arg = arg, !.res = res, !.closed_before = closed_before,
                !.wrote = wrote, !.serviced = serviced]

\* Mutant of lws_ws_send: the closed flag is not tested.
lws_ws_send_unchecked(fn, arg) ==
    IF arg = "NULL"
    THEN /\ lws' = WsOp(fn, arg, -1, 1, FALSE, FALSE)
         /\ UNCHANGED <<conn, context>>
    ELSE \E written_ok \in BOOLEAN, cbs \in WsRuns(context.wsi, MaxWsCallbacks) :
           /\ conn' = ws_callbacks(conn, cbs)
           /\ context' = Context(TRUE, WsiAfterAll(context.wsi, cbs))
           /\ lws' = WsOp(fn, arg, IF written_ok THEN 0 ELSE -1, conn.closed, TRUE, TRUE)

\* The body shared by lws_ws_send_text and lws_ws_send_binary: -1 for a NULL or
\* closed connection; otherwise lws_write, which may fail, then lws_service,
\* and 0 when lws_write did not fail.
lws_ws_send(fn, arg) ==
    IF arg = "NULL" \/ conn.closed # 0
    THEN /\ lws' = WsOp(fn, arg, -1, IF arg = "NULL" THEN 1 ELSE conn.closed, FALSE, FALSE)
         /\ UNCHANGED <<conn, context>>
    ELSE \E written_ok \in BOOLEAN, cbs \in WsRuns(context.wsi, MaxWsCallbacks) :
           /\ conn' = ws_callbacks(conn, cbs)
           /\ context' = Context(TRUE, WsiAfterAll(context.wsi, cbs))
           /\ lws' = WsOp(fn, arg, IF written_ok THEN 0 ELSE -1, conn.closed, TRUE, TRUE)

LwsWsSendText ==
    /\ lws # <<>> /\ lws.fn = "lws_ws_connect" /\ lws.at = "returned"
    /\ \E arg \in ConnArgs : lws_ws_send("lws_ws_send_text", arg)
    /\ UNCHANGED <<heap, status, stderr, last, calls, written, scopes, cur, arr,
                   rcVars, strVars, inferVars, resp>>

LwsWsSendBinary ==
    /\ lws # <<>> /\ lws.fn = "lws_ws_connect" /\ lws.at = "returned"
    /\ \E arg \in ConnArgs : lws_ws_send("lws_ws_send_binary", arg)
    /\ UNCHANGED <<heap, status, stderr, last, calls, written, scopes, cur, arr,
                   rcVars, strVars, inferVars, resp>>

\* lws_ws_close(conn): for a connection, lws_context_destroy and the frees.
LwsWsClose ==
    /\ lws # <<>> /\ lws.fn = "lws_ws_connect" /\ lws.at = "returned"
    /\ \E arg \in ConnArgs :
         IF arg = "NULL"
         THEN /\ lws' = WsOp("lws_ws_close", arg, 0, 1, FALSE, FALSE)
              /\ UNCHANGED <<conn, context>>
         ELSE /\ conn' = FreeConn(ws_callbacks(conn, WsDestroyRun(context.wsi)))
              /\ context' = Context(FALSE, Wsi("gone", context.wsi.sent))
              /\ lws' = WsOp("lws_ws_close", arg, 0, conn.closed, FALSE, FALSE)
    /\ UNCHANGED <<heap, status, stderr, last, calls, written, scopes, cur, arr,
                   rcVars, strVars, inferVars, resp>>

\* lws_ws_is_closed(conn): conn ? conn->closed : 1.
LwsWsIsClosed ==
    /\ lws # <<>> /\ lws.fn = "lws_ws_connect" /\ lws.at = "returned"
    /\ \E arg \in ConnArgs :
         lws' = WsOp("lws_ws_is_closed", arg, IF arg = "NULL" THEN 1 ELSE conn.closed,
                     IF arg = "NULL" THEN 1 ELSE conn.closed, FALSE, FALSE)
    /\ UNCHANGED <<heap, status, stderr, last, calls, written, scopes, cur, arr,
                   rcVars, strVars, inferVars, resp, conn, context>>

NextWs ==
    \/ LwsWsConnect
    \/ LwsWsWait
    \/ LwsWsConnectReturn
    \/ LwsWsSendText
    \/ LwsWsSendBinary
    \/ LwsWsClose
    \/ LwsWsIsClosed

SpecWs == InitHttp /\ [][NextWs]_vars

\* lws_ws_connect alone.
NextConnect == LwsWsConnect \/ LwsWsWait \/ LwsWsConnectReturn

\* lws_service(conn->context, 10) returns, after 10 ms when nothing happens,
\* so a call of lws_ws_connect in its wait loop takes its next step.
SpecConnect ==
    InitHttp /\ [][NextConnect]_vars /\ WF_vars(LwsWsWait \/ LwsWsConnectReturn)

WsScheme(url) ==
    \/ StartsWith(url, <<"w", "s", ":", "/", "/">>)
    \/ StartsWith(url, <<"w", "s", "s", ":", "/", "/">>)

\* What holds of every lws_ws_connect: at most 100 lws_service calls in the
\* wait loop, none after closed or failed was set, and at its return NULL
\* exactly when failed is set or the scheme, context or connect call failed,
\* the connection otherwise.
WsConnectResult ==
    (lws # <<>> /\ lws.fn = "lws_ws_connect") =>
        /\ lws.services <= ConnectTimeout
        /\ lws.at = "wait" => lws.services = ConnectTimeout - lws.timeout
        /\ lws.at = "returned" =>
             /\ lws.ret = "NULL" <=>
                    (~WsScheme(lws.url) \/ ~lws.ctx_ok \/ ~lws.wsi_ok \/ lws.failed_at_exit # 0)
             /\ lws.ret # "NULL" => lws.ret = "conn"
             /\ lws.failed_at_exit # 0 <=> (lws.wsi_ok /\ lws.cce)
             /\ (lws.wsi_ok /\ lws.services < ConnectTimeout) =>
                    (lws.closed_at_exit # 0 \/ lws.failed_at_exit # 0)

C30_ClosedGatesSending ==
    /\ [][(conn # <<>> /\ ~conn.freed /\ conn.closed # 0) => conn'.closed # 0]_vars
    /\ []((lws # <<>> /\ lws.op \in {"lws_ws_send_text", "lws_ws_send_binary"}
                      /\ (lws.arg = "NULL" \/ lws.closed_before # 0))
            => (lws.res = -1 /\ ~lws.wrote /\ ~lws.serviced))
    /\ []((lws # <<>> /\ lws.op = "lws_ws_is_closed" /\ lws.arg = "NULL") => lws.res = 1)

\* lws_ws_send_text was called on the connection lws_ws_connect returned, after
\* a CLOSED callback had set its closed flag.
C30_Witness ==
    /\ lws # <<>> /\ lws.op = "lws_ws_send_text" /\ lws.arg = "conn"
    /\ lws.closed_before = 1 /\ lws.failed_at_exit = 0 /\ lws.res = -1
    /\ conn.closed = 1 /\ ~conn.freed

====
